---- MODULE Spec2Model ----
(***************************************************************************)
(* Model of the compaction engine of eStat-mcp-server:                     *)
(*   - optimizeGroupingByCommonElements (greedy grouping compactor)        *)
(*   - packDataInf (pivoted data packer) with detectPivotDim                *)
(*   - normalizeValue                                                       *)
(* Each operation is a state machine of its own (SpecGrouping, SpecData,   *)
(* SpecNormalize); the variables of the other operations stay idle.        *)
(*                                                                         *)
(* JavaScript objects are modelled as functions from key strings to        *)
(* values; a key that is absent from the object is absent from DOMAIN.     *)
(* JavaScript strings whose characters matter (the measured value "$")     *)
(* are sequences of one-character strings.                                 *)
(***************************************************************************)
EXTENDS Integers, Sequences, FiniteSets, TLC

VARIABLES
    \* optimizeGroupingByCommonElements
    data,        \* the argument: the list of AtTrimmedValue items
    remaining,   \* const remaining = [...data]
    groups,      \* const groups: OptimizedGroup[]
    gpc,         \* position in the function: "idle", "loop", "sort", "done"
    gresult,     \* the returned GroupingResult (its sizes and ratio)
    \* packDataInf
    classInf,    \* the argument classInf (its CLASS_OBJ list)
    dataInf,     \* the argument dataInf (its VALUE list)
    pk,          \* the locals of packDataInf, one record
    dpc,         \* position: "idle", "pivot", "dims", "rows", "assemble", "done"
    \* normalizeValue
    nvIn,        \* the argument x
    nvOut,       \* the returned value
    npc,         \* position: "idle", "call", "done"
    \* packTableInf, packListInf, packClassInf, stripAtPrefix
    calls,       \* the calls in progress, each with its argument and locals
    \* the tool handlers
    handler      \* one tool call: the upstream response and the handler's position

gvars == <<data, remaining, groups, gpc, gresult>>
dvars == <<classInf, dataInf, pk, dpc>>
nvars == <<nvIn, nvOut, npc>>
cvars == <<calls>>
hvars == <<handler>>
vars == <<data, remaining, groups, gpc, gresult, classInf, dataInf, pk, dpc,
          nvIn, nvOut, npc, calls, handler>>

(***************************************************************************)
(* Generic helpers                                                         *)
(***************************************************************************)
Restrict(f, S) == [k \in S |-> f[k]]

EmptyMap == [k \in {} |-> k]

Range(s) == {s[i] : i \in 1..Len(s)}

\* all sequences over S of length 0..n
SeqsUpTo(S, n) == UNION {[1..m -> S] : m \in 0..n}

\* all sequences over S of length n
SeqsOf(S, n) == [1..n -> S]

(***************************************************************************)
(* Bounds of the grouping inputs                                           *)
(***************************************************************************)
MaxItems == 3

MetaKeys == {"area", "time"}
MetaVals == {"1", "2"}
ValueVals == {"10", "20"}

(***************************************************************************)
(* optimizeGroupingByCommonElements                                        *)
(***************************************************************************)
VALUE_KEYS == {"$"}

isValueKey(key) == key \in VALUE_KEYS

\* keys of obj1 that are no value key, are in obj2 and hold the same value
findCommonProperties(obj1, obj2) ==
    Restrict(obj1, {key \in DOMAIN obj1 :
                       /\ ~isValueKey(key)
                       /\ key \in DOMAIN obj2
                       /\ obj1[key] = obj2[key]})

RECURSIVE CommonFold(_, _, _)
CommonFold(common, items, i) ==
    IF i > Len(items) THEN common
    ELSE CommonFold(Restrict(common, {key \in DOMAIN common :
                                         /\ key \in DOMAIN items[i]
                                         /\ common[key] = items[i][key]}),
                    items, i + 1)

findCommonInArrayNoRecompute(items) ==
    IF Len(items) = 0 THEN EmptyMap
    ELSE Restrict(items[1], {key \in DOMAIN items[1] : ~isValueKey(key)})

findCommonInArray(items) ==
    IF Len(items) = 0 THEN EmptyMap
    ELSE CommonFold(Restrict(items[1], {key \in DOMAIN items[1] : ~isValueKey(key)}),
                    items, 2)

extractVaryingPropertiesValueOnly(item, metadata) ==
    Restrict(item, {key \in DOMAIN item : isValueKey(key)})

extractVaryingProperties(item, metadata) ==
    Restrict(item, {key \in DOMAIN item : key \notin DOMAIN metadata})

\* An OptimizedGroup is {metadata, values}.  The model adds the history field
\* members: the items the group was built from (groupItems, or the lone item
\* of a singleton branch).  It is read by no operation.
createGroup(items) ==
    LET metadata == findCommonInArray(items)
    IN [metadata |-> metadata,
        values |-> [i \in 1..Len(items) |-> extractVaryingProperties(items[i], metadata)],
        members |-> items]

\* the singleton branches: value keys to values, everything else to metadata
singletonGroup(item) ==
    [metadata |-> Restrict(item, {key \in DOMAIN item : ~isValueKey(key)}),
     values |-> <<Restrict(item, {key \in DOMAIN item : isValueKey(key)})>>,
     members |-> <<item>>]

\* the scan for (maxCommonCount, bestCommonProps) over remaining[i..]
RECURSIVE BestScan(_, _, _, _)
BestScan(rem, i, maxCommonCount, bestCommonProps) ==
    IF i > Len(rem) THEN [count |-> maxCommonCount, props |-> bestCommonProps]
    ELSE LET commonProps == findCommonProperties(rem[1], rem[i])
             commonCount == Cardinality(DOMAIN commonProps)
         IN IF commonCount > maxCommonCount
            THEN BestScan(rem, i + 1, commonCount, commonProps)
            ELSE BestScan(rem, i + 1, maxCommonCount, bestCommonProps)

\* a scan that keeps the last item reaching the maximum (>= for >)
RECURSIVE BestScanLast(_, _, _, _)
BestScanLast(rem, i, maxCommonCount, bestCommonProps) ==
    IF i > Len(rem) THEN [count |-> maxCommonCount, props |-> bestCommonProps]
    ELSE LET commonProps == findCommonProperties(rem[1], rem[i])
             commonCount == Cardinality(DOMAIN commonProps)
         IN IF commonCount >= maxCommonCount
            THEN BestScanLast(rem, i + 1, commonCount, commonProps)
            ELSE BestScanLast(rem, i + 1, maxCommonCount, bestCommonProps)

BestOfLast(rem) == BestScanLast(rem, 2, -1, EmptyMap)

Best(rem) == BestScan(rem, 2, -1, EmptyMap)

hasAllCommonProps(item, bestCommonProps) ==
    \A key \in DOMAIN bestCommonProps :
        key \in DOMAIN item /\ item[key] = bestCommonProps[key]

\* the matching items without the pivot
groupItemsWithoutPivot(rem, bestCommonProps) ==
    SelectSeq(Tail(rem), LAMBDA item : hasAllCommonProps(item, bestCommonProps))

groupItems(rem, bestCommonProps) ==
    SelectSeq(rem, LAMBDA item : hasAllCommonProps(item, bestCommonProps))

nextRemaining(rem, bestCommonProps) ==
    SelectSeq(rem, LAMBDA item : ~hasAllCommonProps(item, bestCommonProps))

\* groups.sort((a, b) => |b.metadata| - |a.metadata|): stable, descending
RECURSIVE InsertByCount(_, _)
InsertByCount(sorted, g) ==
    IF sorted = <<>> THEN <<g>>
    ELSE IF Cardinality(DOMAIN g.metadata) > Cardinality(DOMAIN sorted[Len(sorted)].metadata)
         THEN Append(InsertByCount(SubSeq(sorted, 1, Len(sorted) - 1), g), sorted[Len(sorted)])
         ELSE Append(sorted, g)

RECURSIVE SortGroups(_)
SortGroups(gs) ==
    IF gs = <<>> THEN <<>>
    ELSE InsertByCount(SortGroups(SubSeq(gs, 1, Len(gs) - 1)), gs[Len(gs)])

GroupItemSet ==
    {m @@ ("$" :> v) :
        m \in UNION {[D -> MetaVals] : D \in SUBSET MetaKeys}, v \in ValueVals}

IdleD == /\ classInf = <<>> /\ dataInf = <<>> /\ pk = EmptyMap /\ dpc = "idle"
IdleN == /\ nvIn = EmptyMap /\ nvOut = EmptyMap /\ npc = "idle"
IdleG ==
    /\ data = <<>> /\ remaining = <<>> /\ groups = <<>> /\ gpc = "idle"
    /\ gresult = EmptyMap
IdleC == calls = <<>>
IdleH == handler = EmptyMap

\* JSON.stringify(x).length of a string without characters to escape
JsonString(s) == Len(s) + 2

RECURSIVE SumOver(_, _)
SumOver(S, f) ==
    IF S = {} THEN 0
    ELSE LET x == CHOOSE y \in S : TRUE IN f[x] + SumOver(S \ {x}, f)

RECURSIVE SumSeq(_)
SumSeq(lens) == IF lens = <<>> THEN 0 ELSE lens[1] + SumSeq(Tail(lens))

\* JSON.stringify(x).length of an array whose elements have the lengths lens
JsonArray(lens) == 2 + SumSeq(lens) + (IF Len(lens) > 1 THEN Len(lens) - 1 ELSE 0)

\* JSON.stringify(x).length of an object with string values: {"k":"v",...}
JsonObject(obj) ==
    2 + SumOver(DOMAIN obj, [k \in DOMAIN obj |-> JsonString(k) + 1 + JsonString(obj[k])])
      + (IF Cardinality(DOMAIN obj) > 1 THEN Cardinality(DOMAIN obj) - 1 ELSE 0)

\* JSON.stringify(g).length of an OptimizedGroup {"metadata":{..},"values":[..]}
JsonGroup(g) ==
    Len("{\"metadata\":") + JsonObject(g.metadata) + Len(",\"values\":")
        + JsonArray([i \in 1..Len(g.values) |-> JsonObject(g.values[i])]) + Len("}")

\* calculateSize(data)
calculateSizeOfData(d) == JsonArray([i \in 1..Len(d) |-> JsonObject(d[i])])

\* calculateSize({ groups })
calculateSizeOfGroups(gs) ==
    Len("{\"groups\":") + JsonArray([i \in 1..Len(gs) |-> JsonGroup(gs[i])]) + Len("}")

\* a ratio that is never reported below 0
compressionRatioClamped(o, c) ==
    IF o > 0 /\ o - c > 0 THEN [num |-> o - c, den |-> o] ELSE [num |-> 0, den |-> 1]

\* totalOriginalSize > 0 ? (totalOriginalSize - totalCompressedSize) /
\* totalOriginalSize : 0, the quotient kept as numerator and denominator
compressionRatio(o, c) ==
    IF o > 0 THEN [num |-> o - c, den |-> o] ELSE [num |-> 0, den |-> 1]

\* remaining.splice / remaining.shift acting on the argument itself
dataAfterSpliceAliased(d, rem) == rem

\* const remaining = [...data] is a copy: splice and shift on remaining leave
\* the argument data as it was
dataAfterSplice(d, rem) == d

\* the state at the entry of optimizeGroupingByCommonElements for an argument
\* of at most m items
GroupingEntry(m) ==
    /\ \E n \in 0..m : data \in SeqsOf(GroupItemSet, n)
    /\ remaining = data
    /\ groups = <<>>
    /\ gpc = "loop"
    /\ gresult = EmptyMap

InitGrouping ==
    /\ GroupingEntry(MaxItems)
    /\ IdleD /\ IdleN /\ IdleC /\ IdleH

\* if (data.length === 0) return { groups: [] ... }
GroupEmptyInput ==
    /\ gpc = "loop" /\ Len(data) = 0
    /\ gpc' = "done"
    /\ gresult' = [totalOriginalSize |-> 0, totalCompressedSize |-> 0,
                   compressionRatio |-> [num |-> 0, den |-> 1]]
    /\ UNCHANGED <<data, remaining, groups>>
    /\ UNCHANGED <<dvars, nvars, cvars, hvars>>

\* if (remaining.length === 1) { ...; groups.push(...); break; }
GroupLastItem ==
    /\ gpc = "loop" /\ Len(data) > 0 /\ Len(remaining) = 1
    /\ groups' = Append(groups, singletonGroup(remaining[1]))
    /\ gpc' = "sort"
    /\ UNCHANGED <<data, remaining, gresult>>
    /\ UNCHANGED <<dvars, nvars, cvars, hvars>>

\* if (maxCommonCount === 0) { ...; groups.push(...); remaining.shift(); continue; }
GroupPivotAlone ==
    /\ gpc = "loop" /\ Len(remaining) > 1
    /\ Best(remaining).count = 0
    /\ groups' = Append(groups, singletonGroup(remaining[1]))
    /\ remaining' = Tail(remaining)
    /\ data' = dataAfterSplice(data, remaining')
    /\ UNCHANGED <<gpc, gresult>>
    /\ UNCHANGED <<dvars, nvars, cvars, hvars>>

\* groups.push(createGroup(groupItems)); remaining.splice(0, n, ...nextRemaining)
GroupCluster ==
    /\ gpc = "loop" /\ Len(remaining) > 1
    /\ Best(remaining).count # 0
    /\ groups' = Append(groups, createGroup(groupItems(remaining, Best(remaining).props)))
    /\ remaining' = nextRemaining(remaining, Best(remaining).props)
    /\ data' = dataAfterSplice(data, remaining')
    /\ UNCHANGED <<gpc, gresult>>
    /\ UNCHANGED <<dvars, nvars, cvars, hvars>>

\* while (remaining.length > 0) ends
GroupLoopExit ==
    /\ gpc = "loop" /\ Len(data) > 0 /\ Len(remaining) = 0
    /\ gpc' = "sort"
    /\ UNCHANGED <<data, remaining, groups, gresult>>
    /\ UNCHANGED <<dvars, nvars, cvars, hvars>>

\* groups.sort(...); the sizes (totalOriginalSize is taken at entry, from the
\* same data) and the ratio; return
GroupSort ==
    /\ gpc = "sort"
    /\ groups' = SortGroups(groups)
    /\ gresult' = [totalOriginalSize |-> calculateSizeOfData(data),
                   totalCompressedSize |-> calculateSizeOfGroups(groups'),
                   compressionRatio |->
                       compressionRatio(calculateSizeOfData(data),
                                        calculateSizeOfGroups(groups'))]
    /\ gpc' = "done"
    /\ UNCHANGED <<data, remaining>>
    /\ UNCHANGED <<dvars, nvars, cvars, hvars>>

NextGrouping ==
    \/ GroupEmptyInput
    \/ GroupLastItem
    \/ GroupPivotAlone
    \/ GroupCluster
    \/ GroupLoopExit
    \/ GroupSort

SpecGrouping == InitGrouping /\ [][NextGrouping]_vars

(***************************************************************************)
(* Properties of optimizeGroupingByCommonElements                          *)
(***************************************************************************)
Pairs(f) == {<<k, f[k]>> : k \in DOMAIN f}

Occurrences(s, x) == Cardinality({i \in 1..Len(s) : s[i] = x})

\* the key-wise unions metadata U v of every group, as sets of (key, value) pairs
RECURSIVE Reconstructed(_)
Reconstructed(gs) ==
    IF gs = <<>> THEN <<>>
    ELSE Reconstructed(SubSeq(gs, 1, Len(gs) - 1)) \o
         [i \in 1..Len(gs[Len(gs)].values) |->
             Pairs(gs[Len(gs)].metadata) \cup Pairs(gs[Len(gs)].values[i])]

PairsOf(items) == [i \in 1..Len(items) |-> Pairs(items[i])]

\* C1: in the result of optimizeGroupingByCommonElements, the key-wise union of
\* a group's metadata with each entry of its values is an input item, and these
\* unions are the input items counted with multiplicity: none lost, none
\* duplicated.
C1_Reconstruction ==
    gpc = "done" =>
        LET recon == Reconstructed(groups)
            orig == PairsOf(data)
        IN /\ Len(recon) = Len(orig)
           /\ \A x \in Range(recon) \cup Range(orig) :
                  Occurrences(recon, x) = Occurrences(orig, x)

C1_Witness ==
    /\ gpc = "done"
    /\ Len(groups) >= 2
    /\ \E i \in 1..Len(groups) :
          /\ Len(groups[i].values) >= 2
          /\ \E j \in 1..Len(groups[i].values) : DOMAIN groups[i].values[j] # {"$"}

\* C2: every emitted group's metadata is exactly the attribute-wise
\* intersection of the items placed in it: it holds the pair (k, x) iff k is not
\* the value key and every member has key k with value x.
C2_MetadataIsIntersection ==
    \A i \in 1..Len(groups) :
        LET g == groups[i]
            candidates == UNION {Pairs(g.members[j]) : j \in 1..Len(g.members)}
                              \cup Pairs(g.metadata)
        IN /\ Len(g.members) >= 1
           /\ Pairs(g.metadata) =
                 {p \in candidates :
                     /\ p[1] # "$"
                     /\ \A j \in 1..Len(g.members) :
                            p[1] \in DOMAIN g.members[j] /\ g.members[j][p[1]] = p[2]}

C2_Witness ==
    /\ gpc = "done"
    /\ \E i \in 1..Len(groups) :
          /\ Len(groups[i].members) = 3
          /\ DOMAIN groups[i].metadata # {}
          /\ \E j \in 1..3 :
                DOMAIN groups[i].members[j] \ {"$"} # DOMAIN groups[i].metadata

(***************************************************************************)
(* normalizeValue                                                          *)
(*                                                                         *)
(* A value is null, a number or a string:                                  *)
(*   [t |-> "null"], [t |-> "num", m |-> m, e |-> e], [t |-> "str", s |-> s]*)
(* A number is the decimal m * 10^e with e <= 0, without trailing zero     *)
(* fraction digits, so equal numbers have equal representations (-0 is 0). *)
(* A string is its sequence of characters.                                 *)
(***************************************************************************)
MaxStrLen == 4

Chars == {" ", "0", "1", ".", "-", "N"}
WhiteSpace == {" "}
Digits == <<"0", "1", "2", "3", "4", "5", "6", "7", "8", "9">>

Null == [t |-> "null"]
Str(s) == [t |-> "str", s |-> s]

\* the canonical representation of m * 10^e
RECURSIVE Num(_, _)
Num(m, e) ==
    IF e < 0 /\ m % 10 = 0 THEN Num(m \div 10, e + 1)
    ELSE [t |-> "num", m |-> m, e |-> e]

IsDigit(c) == \E i \in 1..Len(Digits) : Digits[i] = c
DigitVal(c) == (CHOOSE i \in 1..Len(Digits) : Digits[i] = c) - 1

\* String.prototype.trim
RECURSIVE Trim(_)
Trim(s) ==
    IF s = <<>> THEN s
    ELSE IF s[1] \in WhiteSpace THEN Trim(Tail(s))
    ELSE IF s[Len(s)] \in WhiteSpace THEN Trim(SubSeq(s, 1, Len(s) - 1))
    ELSE s

\* Number(s) of a trimmed non-empty string over Chars is a finite number iff s is a
\* StrDecimalLiteral: an optional sign, then digits with at most one point and
\* at least one digit.  (Chars holds no exponent, radix prefix or Infinity.)
Unsigned(s) == IF s # <<>> /\ s[1] \in {"-", "+"} THEN Tail(s) ELSE s

IsNumeric(s) ==
    LET b == Unsigned(s)
    IN /\ \E i \in 1..Len(b) : IsDigit(b[i])
       /\ \A i \in 1..Len(b) : IsDigit(b[i]) \/ b[i] = "."
       /\ Cardinality({i \in 1..Len(b) : b[i] = "."}) <= 1

RECURSIVE DigitsValue(_)
DigitsValue(ds) ==
    IF ds = <<>> THEN 0
    ELSE 10 * DigitsValue(SubSeq(ds, 1, Len(ds) - 1)) + DigitVal(ds[Len(ds)])

NumberOf(s) ==
    LET b == Unsigned(s)
        point == {i \in 1..Len(b) : b[i] = "."}
        fraction == IF point = {} THEN 0 ELSE Len(b) - (CHOOSE i \in point : TRUE)
        mantissa == DigitsValue(SelectSeq(b, IsDigit))
    IN Num(IF s[1] = "-" THEN 0 - mantissa ELSE mantissa, 0 - fraction)

\* a normalizeValue that forgets x.trim(): Number() itself skips white space
normalizeValueNoTrim(x) ==
    IF x.t = "num" THEN x
    ELSE IF x.s = <<>> THEN Null
    ELSE IF Trim(x.s) = <<>> THEN Num(0, 0)
    ELSE IF IsNumeric(Trim(x.s)) THEN NumberOf(Trim(x.s))
    ELSE Str(x.s)

normalizeValue(x) ==
    IF x.t = "num" THEN x
    ELSE LET s == Trim(x.s)
         IN IF s = <<>> THEN Null
            ELSE IF IsNumeric(s) THEN NumberOf(s)
            ELSE Str(s)

NumericInputs == {Num(0, 0), Num(1, 0), Num(0 - 1, 0), Num(15, 0 - 1)}

InitNormalize ==
    /\ \/ nvIn \in NumericInputs
       \/ \E n \in 0..MaxStrLen : \E s \in SeqsOf(Chars, n) : nvIn = Str(s)
    /\ nvOut = EmptyMap
    /\ npc = "call"
    /\ IdleG /\ IdleD /\ IdleC /\ IdleH

NormalizeCall ==
    /\ npc = "call"
    /\ nvOut' = normalizeValue(nvIn)
    /\ npc' = "done"
    /\ UNCHANGED nvIn
    /\ UNCHANGED <<gvars, dvars, cvars, hvars>>

NextNormalize == NormalizeCall

SpecNormalize == InitNormalize /\ [][NextNormalize]_vars

(***************************************************************************)
(* Properties of normalizeValue                                            *)
(***************************************************************************)
AllWhiteSpace(s) == \A i \in 1..Len(s) : s[i] \in WhiteSpace

\* s without its leading and trailing white space, for s not all white space
Trimmed(s) ==
    LET solid == {i \in 1..Len(s) : s[i] \notin WhiteSpace}
        first == CHOOSE i \in solid : \A j \in solid : i <= j
        last == CHOOSE i \in solid : \A j \in solid : j <= i
    IN SubSeq(s, first, last)

\* C8: normalizeValue returns a numeric input unchanged; of a string input it
\* returns null iff the string is empty or all white space, the number when the
\* trimmed string parses to a finite number, and the trimmed string otherwise.
C8_Normalization ==
    npc = "done" =>
        /\ nvIn.t = "num" => nvOut = nvIn
        /\ nvIn.t = "str" =>
             /\ nvOut = Null <=> AllWhiteSpace(nvIn.s)
             /\ ~AllWhiteSpace(nvIn.s) =>
                  /\ IsNumeric(Trimmed(nvIn.s)) =>
                        nvOut.t = "num" /\ nvOut = NumberOf(Trimmed(nvIn.s))
                  /\ ~IsNumeric(Trimmed(nvIn.s)) => nvOut = Str(Trimmed(nvIn.s))
        /\ nvIn = Str(<<" ", "1", ".", "1">>) => nvOut = [t |-> "num", m |-> 11, e |-> 0 - 1]
        /\ nvIn = Str(<<"1", ".", "0", " ">>) => nvOut = [t |-> "num", m |-> 1, e |-> 0]
        /\ nvIn = Str(<<"-", ".", "1">>) => nvOut = [t |-> "num", m |-> 0 - 1, e |-> 0 - 1]
        /\ nvIn = Str(<<"N">>) => nvOut = Str(<<"N">>)
        /\ nvIn = Str(<<"1", " ", "1">>) => nvOut = Str(<<"1", " ", "1">>)
        /\ nvIn = Str(<<"-">>) => nvOut = Str(<<"-">>)

C8_Witness ==
    /\ npc = "done"
    /\ nvIn = Str(<<" ", "1", ".", "1">>)
    /\ nvOut.t = "num"

(***************************************************************************)
(* packDataInf                                                             *)
(*                                                                         *)
(* A list-or-singleton field (ClassRaw, VALUE) is [isArray |-> TRUE,       *)
(* items |-> <<...>>] or [isArray |-> FALSE, item |-> x].  Dimension codes *)
(* are character sequences, so that dimValues.join("\x00") is computed on  *)
(* characters; a row cell is Null, Num(..) or Str(..).                     *)
(***************************************************************************)
Arr(items) == [isArray |-> TRUE, items |-> items]
One(item) == [isArray |-> FALSE, item |-> item]

toArray(value) == IF value.isArray THEN value.items ELSE <<value.item>>

PIVOT_CANDIDATE_KEYS ==
    <<"tab", "cat01", "cat02", "cat03", "cat04", "cat05", "cat06", "cat07",
      "cat08", "cat09", "cat10", "cat11", "cat12", "cat13", "cat14", "cat15">>

ALL_DIM_KEYS == PIVOT_CANDIDATE_KEYS \o <<"area", "time">>

\* `@${k}` for the keys of ALL_DIM_KEYS, in the same order
ALL_DIM_ATTRS ==
    <<"@tab", "@cat01", "@cat02", "@cat03", "@cat04", "@cat05", "@cat06", "@cat07",
      "@cat08", "@cat09", "@cat10", "@cat11", "@cat12", "@cat13", "@cat14", "@cat15",
      "@area", "@time">>

AttrTable ==
    [k \in Range(ALL_DIM_KEYS) |->
        ALL_DIM_ATTRS[CHOOSE i \in 1..Len(ALL_DIM_KEYS) : ALL_DIM_KEYS[i] = k]]

Attr(k) == AttrTable[k]

\* pivotId of packDataInf when detectPivotDim returned null
Undefined == "(undefined)"

\* classes.some((c) => c["@unit"] != null)
hasUnit(obj) == \E c \in Range(toArray(obj.CLASS)) : "@unit" \in DOMAIN c

\* detectPivotDim that scans PIVOT_CANDIDATE_KEYS instead of CLASS_OBJ
detectPivotDimVocabularyOrder(objs) ==
    LET hits == {k \in 1..Len(PIVOT_CANDIDATE_KEYS) :
                    \E j \in 1..Len(objs) :
                        objs[j]["@id"] = PIVOT_CANDIDATE_KEYS[k] /\ hasUnit(objs[j])}
        k0 == CHOOSE k \in hits : \A k2 \in hits : k <= k2
    IN IF hits = {} THEN 0
       ELSE CHOOSE j \in 1..Len(objs) :
                /\ objs[j]["@id"] = PIVOT_CANDIDATE_KEYS[k0] /\ hasUnit(objs[j])
                /\ \A j2 \in 1..Len(objs) :
                      objs[j2]["@id"] = PIVOT_CANDIDATE_KEYS[k0] /\ hasUnit(objs[j2]) => j <= j2

\* detectPivotDim without the candidateSet test
detectPivotDimAnyId(objs) ==
    LET hits == {j \in 1..Len(objs) : hasUnit(objs[j])}
    IN IF hits = {} THEN 0 ELSE CHOOSE j \in hits : \A j2 \in hits : j <= j2

\* the for loop of detectPivotDim from position i: the index in CLASS_OBJ of
\* the pivot object, 0 for null
RECURSIVE DetectScan(_, _)
DetectScan(objs, i) ==
    IF i > Len(objs) THEN 0
    ELSE IF objs[i]["@id"] \notin Range(PIVOT_CANDIDATE_KEYS) THEN DetectScan(objs, i + 1)
    ELSE IF hasUnit(objs[i]) THEN i
    ELSE DetectScan(objs, i + 1)

detectPivotDim(objs) == DetectScan(objs, 1)

\* a column that never carries a unit
valueColNoUnit(c) == ("code" :> c["@code"]) @@ ("label" :> c["@name"])

\* c["@unit"] ? { unit: c["@unit"] } : {}
valueCol(c) ==
    ("code" :> c["@code"]) @@ ("label" :> c["@name"]) @@
    (IF "@unit" \in DOMAIN c /\ c["@unit"] # "" THEN ("unit" :> c["@unit"]) ELSE EmptyMap)

\* step 1: pivotId, pivotIndex (code -> 0-based column, the last one of a
\* repeated code) and valueCols
BuildValueCols(objs) ==
    LET p == detectPivotDim(objs)
        classes == toArray(objs[p].CLASS)
    IN IF p # 0
       THEN [pivotId |-> objs[p]["@id"],
             pivotIndex |-> [code \in {classes[i]["@code"] : i \in 1..Len(classes)} |->
                               (CHOOSE i \in 1..Len(classes) :
                                   /\ classes[i]["@code"] = code
                                   /\ \A j \in 1..Len(classes) :
                                         classes[j]["@code"] = code => j <= i) - 1],
             valueCols |-> [i \in 1..Len(classes) |-> valueCol(classes[i])]]
       ELSE [pivotId |-> Undefined,
             pivotIndex |-> EmptyMap,
             valueCols |-> <<("code" :> "_") @@ ("label" :> "value")>>]

excludeFromDimsUnitOnly(pivotId) == {"unit"}

\* step 2: excludeFromDims
excludeFromDims(pivotId) ==
    (IF pivotId # Undefined THEN {pivotId} ELSE {}) \cup {"unit"}

\* step 2: present
present(values, pivotId) ==
    {k \in Range(ALL_DIM_KEYS) \ excludeFromDims(pivotId) :
        \E i \in 1..Len(values) : Attr(k) \in DOMAIN values[i]}

\* step 2: candidateDims, in ALL_DIM_KEYS order
candidateDims(values, pivotId) ==
    LET seen == present(values, pivotId)
    IN SelectSeq(ALL_DIM_KEYS, LAMBDA k : k \notin excludeFromDims(pivotId) /\ k \in seen)

\* step 3: uniqueValuesPerDim.get(dim)
uniqueValues(values, dim) ==
    {values[i][Attr(dim)] : i \in {j \in 1..Len(values) : Attr(dim) \in DOMAIN values[j]}}

\* step 3 with `uniq.size >= 1` for `uniq.size === 1`
PromoteFixedAnySize(values, pivotId) ==
    LET cand == candidateDims(values, pivotId)
    IN [fixed |-> [d \in Range(cand) |-> CHOOSE v \in uniqueValues(values, d) : TRUE],
        dims |-> <<>>]

\* step 3: fixed and dims
PromoteFixed(values, pivotId) ==
    LET cand == candidateDims(values, pivotId)
        single == {d \in Range(cand) : Cardinality(uniqueValues(values, d)) = 1}
    IN [fixed |-> [d \in single |-> CHOOSE v \in uniqueValues(values, d) : TRUE],
        dims |-> SelectSeq(cand, LAMBDA d : d \notin single)]

\* step 4: dimValues of a row; row[attr] ?? null
dimValuesOf(row, dims) ==
    [i \in 1..Len(dims) |->
        IF Attr(dims[i]) \in DOMAIN row THEN Str(row[Attr(dims[i])]) ELSE Null]

\* Array.prototype.join("\x00"): null joins as the empty string
NUL == "\\x00"

RECURSIVE Join(_)
Join(dimValues) ==
    IF dimValues = <<>> THEN <<>>
    ELSE LET last == dimValues[Len(dimValues)]
             text == IF last = Null THEN <<>> ELSE last.s
         IN IF Len(dimValues) = 1 THEN text
            ELSE Join(SubSeq(dimValues, 1, Len(dimValues) - 1)) \o <<NUL>> \o text

groupKey(dimValues) == Join(dimValues)

\* step 4: the column of a row; -1 when the row is skipped by a `continue`
colIdxOf(row, c) ==
    IF c.pivotId # Undefined
    THEN IF Attr(c.pivotId) \notin DOMAIN row THEN 0 - 1
         ELSE IF row[Attr(c.pivotId)] \notin DOMAIN c.pivotIndex THEN 0 - 1
         ELSE c.pivotIndex[row[Attr(c.pivotId)]]
    ELSE 0

\* a row pass that stores the value as the record carries it
rowStepUnnormalized(g, row, c) ==
    LET dimValues == dimValuesOf(row, c.dims)
        key == groupKey(dimValues)
        allocated == IF key \in DOMAIN g.map THEN g
                     ELSE [order |-> Append(g.order, key),
                           map |-> (key :> [dimValues |-> dimValues,
                                            values |-> [i \in 1..Len(c.valueCols) |-> Null],
                                            annotations |-> <<>>]) @@ g.map]
        col == colIdxOf(row, c)
    IN IF col < 0 THEN allocated
       ELSE [allocated EXCEPT
                !.map = (key :> [allocated.map[key] EXCEPT !.values[col + 1] = row["$"]])
                        @@ allocated.map]

\* step 4, one iteration of the for loop over VALUE.  g is groupMap: its keys in
\* insertion order and the group of each key.
rowStep(g, row, c) ==
    LET dimValues == dimValuesOf(row, c.dims)
        key == groupKey(dimValues)
        allocated == IF key \in DOMAIN g.map THEN g
                     ELSE [order |-> Append(g.order, key),
                           map |-> (key :> [dimValues |-> dimValues,
                                            values |-> [i \in 1..Len(c.valueCols) |-> Null],
                                            annotations |-> <<>>]) @@ g.map]
        group == allocated.map[key]
        col == colIdxOf(row, c)
        ann == IF "@annotation" \in DOMAIN row /\ row["@annotation"] # ""
               THEN Append(group.annotations, <<col, row["@annotation"]>>)
               ELSE group.annotations
    IN IF col < 0 THEN allocated
       ELSE [allocated EXCEPT
                !.map = (key :> [group EXCEPT !.values[col + 1] = normalizeValue(row["$"]),
                                              !.annotations = ann]) @@ allocated.map]

\* step 4 over a whole list
RECURSIVE rowPass(_, _, _)
rowPass(g, rows, c) ==
    IF rows = <<>> THEN g
    ELSE rowStep(rowPass(g, SubSeq(rows, 1, Len(rows) - 1), c), rows[Len(rows)], c)

EmptyGroupMap == [order |-> <<>>, map |-> EmptyMap]

\* step 5: rows
assembleRows(g) ==
    [r \in 1..Len(g.order) |-> g.map[g.order[r]].dimValues \o g.map[g.order[r]].values]

\* step 5: annRows, [rowIdx, colIdx, annCode] with 0-based indices
RECURSIVE assembleAnnRows(_, _)
assembleAnnRows(g, n) ==
    IF n = 0 THEN <<>>
    ELSE assembleAnnRows(g, n - 1) \o
         [a \in 1..Len(g.map[g.order[n]].annotations) |->
             <<n - 1, g.map[g.order[n]].annotations[a][1], g.map[g.order[n]].annotations[a][2]>>]

\* dataInf.NOTE?.length (also ANNOTATION): truthy for a non-empty list; a field
\* that is a single object has no length
hasLength(dInf, field) ==
    field \in DOMAIN dInf /\ dInf[field].isArray /\ Len(dInf[field].items) > 0

\* dataInf.NOTE?.length ? Object.fromEntries(...) : undefined (also ANNOTATION)
sideTable(dInf, field, keyAttr) ==
    IF hasLength(dInf, field)
    THEN LET list == dInf[field].items
         IN [k \in {list[i][keyAttr] : i \in 1..Len(list)} |->
                list[CHOOSE i \in 1..Len(list) :
                        /\ list[i][keyAttr] = k
                        /\ \A j \in 1..Len(list) : list[j][keyAttr] = k => j <= i]["$"]]
    ELSE EmptyMap

\* step 6: the DataPacked object; an optional key is a key of the function or not
pack(c, g, dInf) ==
    LET annRows == assembleAnnRows(g, Len(g.order))
        na == sideTable(dInf, "NOTE", "@char")
        annDict == sideTable(dInf, "ANNOTATION", "@annotation")
    IN ("dims" :> c.dims) @@ ("valueCols" :> c.valueCols) @@ ("rows" :> assembleRows(g)) @@
       (IF c.pivotId # Undefined THEN ("pivotDim" :> c.pivotId) ELSE EmptyMap) @@
       (IF DOMAIN c.fixed # {} THEN ("fixed" :> c.fixed) ELSE EmptyMap) @@
       (IF hasLength(dInf, "NOTE") THEN ("na" :> na) ELSE EmptyMap) @@
       (IF hasLength(dInf, "ANNOTATION") THEN ("annDict" :> annDict) ELSE EmptyMap) @@
       (IF Len(annRows) > 0 THEN ("annRows" :> annRows) ELSE EmptyMap)

\* steps 1-3: what the row pass reads
context(dInf, objs) ==
    LET cols == BuildValueCols(objs)
        promoted == PromoteFixed(toArray(dInf["VALUE"]), cols.pivotId)
    IN [pivotId |-> cols.pivotId, pivotIndex |-> cols.pivotIndex,
        valueCols |-> cols.valueCols, fixed |-> promoted.fixed, dims |-> promoted.dims]

(***************************************************************************)
(* Inputs of packDataInf                                                   *)
(***************************************************************************)
MaxRows == 3
MaxClassObj == 2

CodeX == <<"X">>
CodeY == <<"Y">>

ClassX == ("@code" :> CodeX) @@ ("@name" :> "LX") @@ ("@level" :> "1")
ClassY == ("@code" :> CodeY) @@ ("@name" :> "LY") @@ ("@level" :> "1")

\* the CLASS fields: a list with a unit on X, a list without units, a single
\* object with a unit, a list whose unit is the empty string
ClassRaws ==
    {Arr(<<ClassX @@ ("@unit" :> "yen"), ClassY>>),
     Arr(<<ClassX, ClassY>>),
     One(ClassX @@ ("@unit" :> "yen")),
     Arr(<<ClassX @@ ("@unit" :> ""), ClassY>>)}

UsedIds == {"tab", "cat01", "area"}

ClassObjs ==
    {("@id" :> id) @@ ("@name" :> "dimension") @@ ("CLASS" :> raw) :
        id \in UsedIds, raw \in ClassRaws}

\* CLASS_OBJ lists of at most n dimensions with distinct ids
ClassTrees(n) ==
    {t \in SeqsUpTo(ClassObjs, n) :
        \A i, j \in 1..Len(t) : i # j => t[i]["@id"] # t[j]["@id"]}

ClassObjOf(id, raw) == ("@id" :> id) @@ ("@name" :> "dimension") @@ ("CLASS" :> raw)

\* no pivot axis; tab as pivot axis with columns X, Y; cat01 as pivot axis with
\* the single column X
CoreTrees ==
    {<<ClassObjOf("area", Arr(<<ClassX @@ ("@unit" :> "yen"), ClassY>>))>>,
     <<ClassObjOf("tab", Arr(<<ClassX @@ ("@unit" :> "yen"), ClassY>>))>>,
     <<ClassObjOf("tab", Arr(<<ClassX, ClassY>>)),
       ClassObjOf("cat01", One(ClassX @@ ("@unit" :> "yen")))>>}

Optional(key, vals) == {EmptyMap} \cup {key :> v : v \in vals}

\* value records over two dimensions, each absent or present, cat01 possibly
\* with the empty code
RichRecords ==
    {a @@ b @@ ("$" :> v) :
        a \in Optional("@tab", {CodeX}),
        b \in Optional("@cat01", {<<>>, CodeX}),
        v \in {Num(1, 0), Str(<<"2", " ">>)}}

\* value records over the same two dimensions, each with or without an
\* annotation code
AnnotatedRecords ==
    {a @@ b @@ n @@ ("$" :> Num(1, 0)) :
        a \in Optional("@tab", {CodeX}),
        b \in Optional("@cat01", {<<>>, CodeX}),
        n \in Optional("@annotation", {"*"})}

\* a few records with the other attributes of a Value
PlainRecords ==
    {("@tab" :> CodeX) @@ ("@cat01" :> CodeX) @@ ("@area" :> CodeX) @@ ("$" :> Num(1, 0)),
     ("@tab" :> CodeY) @@ ("@cat01" :> CodeX) @@ ("@area" :> CodeX) @@ ("@annotation" :> "*")
         @@ ("@unit" :> "yen") @@ ("$" :> Str(<<" ", "2">>)),
     ("@cat01" :> CodeY) @@ ("@time" :> CodeX) @@ ("@annotation" :> "") @@ ("$" :> Str(<<" ">>)),
     ("@tab" :> CodeX) @@ ("@time" :> CodeY) @@ ("@annotation" :> "#") @@ ("$" :> Str(<<"N">>))}

Note1 == ("@char" :> "*") @@ ("$" :> "note")
Note2 == ("@char" :> "-") @@ ("$" :> "none")
Annotation1 == ("@annotation" :> "#") @@ ("$" :> "annotation")

\* NOTE and ANNOTATION: absent, an empty list, a list, a single object
SideTables ==
    {n @@ a : n \in Optional("NOTE", {Arr(<<>>), Arr(<<Note1>>), Arr(<<Note1, Note2>>),
                                       One(Note1)}),
              a \in Optional("ANNOTATION", {Arr(<<>>), Arr(<<Annotation1>>),
                                             One(Annotation1)})}

\* the locals of packDataInf at its entry
DataLocalsAtEntry ==
    /\ pk = [pivotId |-> Undefined, pivotIndex |-> EmptyMap, valueCols |-> <<>>,
             fixed |-> EmptyMap, dims |-> <<>>, groupMap |-> EmptyGroupMap,
             i |-> 0, packed |-> EmptyMap]
    /\ dpc = "pivot"

\* the (dataInf, classInf) arguments: every class tree with short value lists
\* (VALUE a list or a single object); the core trees with every value list of
\* rich records and of annotated records; the core trees with the side tables
InitData ==
    /\ \/ \E t \in ClassTrees(MaxClassObj) : \E n \in 0..(MaxRows - 1) :
             \E l \in SeqsOf(PlainRecords, n) :
                 dataInf = ("VALUE" :> Arr(l)) /\ classInf = t
       \/ \E t \in ClassTrees(MaxClassObj) : \E r \in PlainRecords :
             dataInf = ("VALUE" :> One(r)) /\ classInf = t
       \/ \E t \in CoreTrees : \E n \in 0..MaxRows : \E l \in SeqsOf(RichRecords, n) :
             dataInf = ("VALUE" :> Arr(l)) /\ classInf = t
       \/ \E t \in CoreTrees : \E n \in 0..MaxRows : \E l \in SeqsOf(AnnotatedRecords, n) :
             dataInf = ("VALUE" :> Arr(l)) /\ classInf = t
       \/ \E t \in CoreTrees : \E side \in SideTables : \E n \in 0..1 :
             \E l \in SeqsOf(PlainRecords, n) :
                 dataInf = ("VALUE" :> Arr(l)) @@ side /\ classInf = t
    /\ DataLocalsAtEntry
    /\ IdleG /\ IdleN /\ IdleC /\ IdleH

VALUE == toArray(dataInf["VALUE"])

\* const pivot = detectPivotDim(classInf); step 1
PackPivot ==
    /\ dpc = "pivot"
    /\ LET cols == BuildValueCols(classInf)
       IN pk' = [pk EXCEPT !.pivotId = cols.pivotId,
                           !.pivotIndex = cols.pivotIndex,
                           !.valueCols = cols.valueCols]
    /\ dpc' = "dims"
    /\ UNCHANGED <<classInf, dataInf>>
    /\ UNCHANGED <<gvars, nvars, cvars, hvars>>

\* steps 2 and 3
PackDims ==
    /\ dpc = "dims"
    /\ LET promoted == PromoteFixed(VALUE, pk.pivotId)
       IN pk' = [pk EXCEPT !.fixed = promoted.fixed, !.dims = promoted.dims, !.i = 1]
    /\ dpc' = "rows"
    /\ UNCHANGED <<classInf, dataInf>>
    /\ UNCHANGED <<gvars, nvars, cvars, hvars>>

\* step 4, a row that lacks the pivot attribute: if (pivotCode == null) continue
PackRowNoPivotCode ==
    /\ dpc = "rows" /\ pk.i <= Len(VALUE)
    /\ pk.pivotId # Undefined
    /\ Attr(pk.pivotId) \notin DOMAIN VALUE[pk.i]
    /\ pk' = [pk EXCEPT !.groupMap = rowStep(pk.groupMap, VALUE[pk.i], pk), !.i = pk.i + 1]
    /\ UNCHANGED <<classInf, dataInf, dpc>>
    /\ UNCHANGED <<gvars, nvars, cvars, hvars>>

\* step 4, a row whose pivot code is no code of the axis: if (idx == null) continue
PackRowUnknownCode ==
    /\ dpc = "rows" /\ pk.i <= Len(VALUE)
    /\ pk.pivotId # Undefined
    /\ Attr(pk.pivotId) \in DOMAIN VALUE[pk.i]
    /\ VALUE[pk.i][Attr(pk.pivotId)] \notin DOMAIN pk.pivotIndex
    /\ pk' = [pk EXCEPT !.groupMap = rowStep(pk.groupMap, VALUE[pk.i], pk), !.i = pk.i + 1]
    /\ UNCHANGED <<classInf, dataInf, dpc>>
    /\ UNCHANGED <<gvars, nvars, cvars, hvars>>

\* step 4, a row whose value is stored
PackRowWrite ==
    /\ dpc = "rows" /\ pk.i <= Len(VALUE)
    /\ colIdxOf(VALUE[pk.i], pk) >= 0
    /\ pk' = [pk EXCEPT !.groupMap = rowStep(pk.groupMap, VALUE[pk.i], pk), !.i = pk.i + 1]
    /\ UNCHANGED <<classInf, dataInf, dpc>>
    /\ UNCHANGED <<gvars, nvars, cvars, hvars>>

\* steps 5 and 6
PackAssemble ==
    /\ dpc = "rows" /\ pk.i > Len(VALUE)
    /\ pk' = [pk EXCEPT !.packed = pack(pk, pk.groupMap, dataInf)]
    /\ dpc' = "done"
    /\ UNCHANGED <<classInf, dataInf>>
    /\ UNCHANGED <<gvars, nvars, cvars, hvars>>

NextData ==
    \/ PackPivot
    \/ PackDims
    \/ PackRowNoPivotCode
    \/ PackRowUnknownCode
    \/ PackRowWrite
    \/ PackAssemble

SpecData == InitData /\ [][NextData]_vars

\* packDataInf as a function of its arguments, with the row pass run over the
\* list rows
packDataInfOver(dInf, objs, rows) ==
    pack(context(dInf, objs), rowPass(EmptyGroupMap, rows, context(dInf, objs)), dInf)

packDataInf(dInf, objs) == packDataInfOver(dInf, objs, toArray(dInf["VALUE"]))

(***************************************************************************)
(* Properties of packDataInf                                               *)
(***************************************************************************)
Packed == pk.packed
OutDims == Packed["dims"]
OutRows == Packed["rows"]
OutValueCols == Packed["valueCols"]
OutFixed == IF "fixed" \in DOMAIN Packed THEN Packed["fixed"] ELSE EmptyMap
HasPivot == "pivotDim" \in DOMAIN Packed

\* the dimension keys some value record carries
InputDims == {k \in Range(ALL_DIM_KEYS) : \E i \in 1..Len(VALUE) : Attr(k) \in DOMAIN VALUE[i]}

\* the distinct values the value records carry for dimension k
DistinctValues(k) ==
    {VALUE[i][Attr(k)] : i \in {j \in 1..Len(VALUE) : Attr(k) \in DOMAIN VALUE[j]}}

\* the dimension obj has a code entry with a unit attribute
DeclaresUnit(obj) ==
    IF obj.CLASS.isArray
    THEN \E n \in 1..Len(obj.CLASS.items) : "@unit" \in DOMAIN obj.CLASS.items[n]
    ELSE "@unit" \in DOMAIN obj.CLASS.item

VocabularyIndex(id) == CHOOSE n \in 1..Len(PIVOT_CANDIDATE_KEYS) : PIVOT_CANDIDATE_KEYS[n] = id

\* positions in CLASS_OBJ of the pivot-candidate dimensions with a unit-bearing code
UnitCandidates ==
    {j \in 1..Len(classInf) :
        classInf[j]["@id"] \in Range(PIVOT_CANDIDATE_KEYS) /\ DeclaresUnit(classInf[j])}

UnitCandidateIds == {classInf[j]["@id"] : j \in UnitCandidates}

PartitionAt(k) ==
    /\ (k \in DOMAIN OutFixed) # (k \in Range(OutDims))
    /\ k \in DOMAIN OutFixed => Cardinality(DistinctValues(k)) = 1
    /\ k \in Range(OutDims) => Cardinality(DistinctValues(k)) >= 2

\* C3 as stated: every dimension present in the input is in exactly one of
\* fixed and dims, with one distinct value in fixed and at least 2 in dims.
C3_PartitionAllPresent ==
    dpc = "done" => \A k \in InputDims : PartitionAt(k)

\* C3 amended: every dimension present in the input other than the pivot axis
\* is in exactly one of fixed and dims; a dimension in fixed has exactly one
\* distinct value across the input records, a dimension in dims at least 2.
C3_Partition ==
    dpc = "done" =>
        \A k \in InputDims :
            (HasPivot /\ Packed["pivotDim"] = k) \/ PartitionAt(k)

C3_Witness ==
    /\ dpc = "done"
    /\ HasPivot /\ Packed["pivotDim"] \in InputDims
    /\ DOMAIN OutFixed # {}
    /\ OutDims # <<>>

\* C4: if fixed[k] = v then every input value record carries @k equal to v.
C4_FixedSharedByAll ==
    dpc = "done" =>
        \A k \in DOMAIN OutFixed :
            \A i \in 1..Len(VALUE) :
                Attr(k) \in DOMAIN VALUE[i] /\ VALUE[i][Attr(k)] = OutFixed[k]

\* C5 as stated: when several pivot-candidate dimensions have a unit-bearing
\* code, the pivot axis is the first of them in the order tab, cat01, ..., cat15.
C5_VocabularyOrder ==
    dpc = "done" /\ Cardinality(UnitCandidateIds) >= 2 =>
        /\ HasPivot
        /\ \A id \in UnitCandidateIds :
              VocabularyIndex(Packed["pivotDim"]) <= VocabularyIndex(id)

\* C5 amended: pivot detection scans CLASS_OBJ in its list order; when several
\* pivot-candidate dimensions have a unit-bearing code, the pivot axis is the
\* one listed first in CLASS_OBJ.
C5_ClassObjOrder ==
    dpc = "done" /\ UnitCandidates # {} =>
        /\ HasPivot
        /\ \E j \in UnitCandidates :
              /\ \A j2 \in UnitCandidates : j <= j2
              /\ Packed["pivotDim"] = classInf[j]["@id"]

C5_Witness ==
    /\ dpc = "done"
    /\ HasPivot
    /\ \E i, j \in UnitCandidates :
          /\ i < j
          /\ VocabularyIndex(classInf[i]["@id"]) > VocabularyIndex(classInf[j]["@id"])
          /\ Packed["pivotDim"] = classInf[i]["@id"]

\* C6: when exactly one pivot-candidate dimension has a unit-bearing code,
\* that dimension is pivotDim and is neither in dims nor in fixed.
C6_SinglePivot ==
    dpc = "done" =>
        \A d \in UnitCandidateIds :
            UnitCandidateIds = {d} =>
                /\ HasPivot /\ Packed["pivotDim"] = d
                /\ d \notin Range(OutDims)
                /\ d \notin DOMAIN OutFixed

C6_Witness ==
    /\ dpc = "done"
    /\ Cardinality(UnitCandidateIds) = 1
    /\ \E d \in UnitCandidateIds : d \in InputDims /\ Packed["pivotDim"] = d
    /\ \E j \in 1..Len(classInf) :
          classInf[j]["@id"] \notin UnitCandidateIds /\ j < Len(classInf)
    /\ OutRows # <<>>

\* the dims-tuple of a value record
TupleOf(row) ==
    [n \in 1..Len(OutDims) |->
        IF Attr(OutDims[n]) \in DOMAIN row THEN Str(row[Attr(OutDims[n])]) ELSE Null]

\* C7: when no pivot-candidate dimension has a unit-bearing code there is no
\* pivotDim, valueCols is the single column {code "_", label "value"}, and
\* every row is one entry per dimension of dims followed by one value entry.
C7_NoPivot ==
    dpc = "done" /\ UnitCandidates = {} =>
        /\ ~HasPivot
        /\ OutValueCols = <<("code" :> "_") @@ ("label" :> "value")>>
        /\ \A r \in 1..Len(OutRows) :
              /\ Len(OutRows[r]) = Len(OutDims) + 1
              /\ \E i \in 1..Len(VALUE) :
                    SubSeq(OutRows[r], 1, Len(OutDims)) = TupleOf(VALUE[i])
              /\ OutRows[r][Len(OutDims) + 1].t \in {"null", "num", "str"}

C7_Witness ==
    /\ dpc = "done"
    /\ UnitCandidates = {}
    /\ \E j \in 1..Len(classInf) : DeclaresUnit(classInf[j])
    /\ Len(OutRows) >= 2
    /\ OutDims # <<>>

\* the records whose dims-tuple is t and whose pivot code is the code of the
\* 1-based value column c (every record of the tuple when there is no pivot axis)
RecordsAt(t, c) ==
    {i \in 1..Len(VALUE) :
        /\ TupleOf(VALUE[i]) = t
        /\ HasPivot =>
              /\ Attr(Packed["pivotDim"]) \in DOMAIN VALUE[i]
              /\ VALUE[i][Attr(Packed["pivotDim"])] = OutValueCols[c]["code"]}

Last(S) == CHOOSE i \in S : \A j \in S : j <= i

\* C9: the cell of the row of dims-tuple t in the value column of pivot code c
\* holds the normalized value of the last input record with tuple t and code
\* c, and null when there is no such record.
C9_CellContent ==
    dpc = "done" =>
        \A r \in 1..Len(OutRows) : \A c \in 1..Len(OutValueCols) :
            LET at == RecordsAt(SubSeq(OutRows[r], 1, Len(OutDims)), c)
            IN OutRows[r][Len(OutDims) + c] =
                   IF at = {} THEN Null ELSE normalizeValue(VALUE[Last(at)]["$"])

\* The statement above with records matched to a row by the serialized form of
\* their dims-tuple (dimValues.join), under which a missing value and the empty
\* code coincide: this is what the row pass computes.
CellContentByGroupKey ==
    dpc = "done" =>
        \A r \in 1..Len(OutRows) : \A c \in 1..Len(OutValueCols) :
            LET at == UNION {RecordsAt(TupleOf(VALUE[i]), c) :
                               i \in {j \in 1..Len(VALUE) :
                                         groupKey(TupleOf(VALUE[j])) =
                                         groupKey(SubSeq(OutRows[r], 1, Len(OutDims)))}}
            IN OutRows[r][Len(OutDims) + c] =
                   IF at = {} THEN Null ELSE normalizeValue(VALUE[Last(at)]["$"])

\* the records whose pivot code is missing or is no declared code of the axis
Dropped ==
    {i \in 1..Len(VALUE) :
        /\ HasPivot
        /\ \/ Attr(Packed["pivotDim"]) \notin DOMAIN VALUE[i]
           \/ \A c \in 1..Len(OutValueCols) :
                 OutValueCols[c]["code"] # VALUE[i][Attr(Packed["pivotDim"])]}

Without(list, i) == SubSeq(list, 1, i - 1) \o SubSeq(list, i + 1, Len(list))

\* C10: a record whose pivot code is missing or undeclared has no effect on the
\* output: the output is the output with that record removed from the row
\* assembly pass.
C10_DroppedNoEffect ==
    dpc = "done" =>
        \A i \in Dropped :
            Packed = packDataInfOver(dataInf, classInf, Without(VALUE, i))

\* the distinct dims-tuples of the first n value records, in the order of
\* their first occurrence
RECURSIVE DistinctTuples(_)
DistinctTuples(n) ==
    IF n = 0 THEN <<>>
    ELSE LET before == DistinctTuples(n - 1)
         IN IF TupleOf(VALUE[n]) \in Range(before) THEN before
            ELSE Append(before, TupleOf(VALUE[n]))

\* the dims-tuples of the emitted rows, in row order
RowTuples == [r \in 1..Len(OutRows) |-> SubSeq(OutRows[r], 1, Len(OutDims))]

\* C11: there is exactly one row per distinct dims-tuple of the input records,
\* in the order of first occurrence of the tuples; records with different
\* tuples (a missing value and the empty string included) never share a row.
C11_OneRowPerTuple ==
    dpc = "done" => RowTuples = DistinctTuples(Len(VALUE))

\* The statement above with tuples identified by their serialized form
\* (dimValues.join): one row per distinct group key, in first-occurrence order.
RECURSIVE DistinctKeys(_)
DistinctKeys(n) ==
    IF n = 0 THEN <<>>
    ELSE LET before == DistinctKeys(n - 1)
         IN IF groupKey(TupleOf(VALUE[n])) \in Range(before) THEN before
            ELSE Append(before, groupKey(TupleOf(VALUE[n])))

OneRowPerGroupKey ==
    dpc = "done" =>
        [r \in 1..Len(OutRows) |-> groupKey(RowTuples[r])] = DistinctKeys(Len(VALUE))

(***************************************************************************)
(* packTableInf, packListInf, packClassInf, stripAtPrefix                  *)
(*                                                                         *)
(* calls is the list of the calls in progress.  A call is a record: op,    *)
(* arg (the argument), acc (the object under construction), ids (the local *)
(* Set of packTableInf), i (the 1-based position of the for loop), pc      *)
(* ("loop", "done", "error") and out (the returned value).                 *)
(* An object whose key order matters is [keys |-> the keys in insertion    *)
(* order, at |-> the value of each key].  A value that is a string or an   *)
(* object (TITLE) is [isString |-> TRUE, s |-> ..] or [isString |-> FALSE, *)
(* obj |-> ..].                                                            *)
(***************************************************************************)
EmptyObject == [keys |-> <<>>, at |-> EmptyMap]

\* obj[k] = v, a new key going last
Put(obj, k, v) ==
    IF k \in DOMAIN obj.at THEN [obj EXCEPT !.at[k] = v]
    ELSE [keys |-> Append(obj.keys, k), at |-> (k :> v) @@ obj.at]

\* a title text taken from the number of a { number, text } title
getStringValueOfNumber(obj) == IF obj.isString THEN obj.s ELSE obj.obj["@no"]

getStringValue(obj) == IF obj.isString THEN obj.s ELSE obj.obj["$"]

\* a seen-id set that never holds an id
seenIdsNone(cs, c) == {}

\* one seen-id set shared by all the calls
seenIdsShared(cs, c) == UNION {cs[d].ids : d \in 1..Len(cs)}

\* const ids = new Set<string>(): the set of the call itself
seenIds(cs, c) == cs[c].ids

\* the body of the for loop of packTableInf for the entry tbl, on the locals
\* tbls and ids
tableStep(tbls, ids, tbl) ==
    LET id == tbl["@id"]
        govOrg == tbl["GOV_ORG"]["$"]
        statisticsName == tbl["STATISTICS_NAME"]
        withOrg == IF govOrg \notin DOMAIN tbls.at THEN Put(tbls, govOrg, EmptyObject)
                   ELSE tbls
        withName == IF statisticsName \notin DOMAIN withOrg.at[govOrg].at
                    THEN Put(withOrg, govOrg,
                             Put(withOrg.at[govOrg], statisticsName,
                                 [c |-> <<"statsDataId", "title">>, r |-> <<>>]))
                    ELSE withOrg
        group == withName.at[govOrg].at[statisticsName]
    IN IF id \notin ids
       THEN [tbls |-> Put(withName, govOrg,
                          Put(withName.at[govOrg], statisticsName,
                              [group EXCEPT !.r = Append(group.r,
                                                         <<id, getStringValue(tbl["TITLE"])>>)])),
             ids |-> ids \cup {id}]
       ELSE [tbls |-> withName, ids |-> ids]

\* packTableInf on the first n entries of a list
RECURSIVE tablePass(_, _)
tablePass(list, n) ==
    IF n = 0 THEN [tbls |-> EmptyObject, ids |-> {}]
    ELSE LET before == tablePass(list, n - 1)
         IN tableStep(before.tbls, before.ids, list[n])

packTableInf(tableInf) ==
    [tbls |-> tablePass(toArray(tableInf), Len(toArray(tableInf))).tbls]

\* the body of the for loop of packListInf
listStep(svys, svy) ==
    LET govOrg == svy["GOV_ORG"]["$"]
        withOrg == IF govOrg \notin DOMAIN svys.at
                   THEN Put(svys, govOrg, [c |-> <<"statsCode", "name">>, r |-> <<>>])
                   ELSE svys
    IN Put(withOrg, govOrg,
           [withOrg.at[govOrg] EXCEPT
               !.r = Append(withOrg.at[govOrg].r, <<svy["@id"], svy["STAT_NAME"]["$"]>>)])

RECURSIVE listPass(_, _)
listPass(list, n) ==
    IF n = 0 THEN EmptyObject ELSE listStep(listPass(list, n - 1), list[n])

packListInf(listInf) == [svys |-> listPass(toArray(listInf), Len(toArray(listInf)))]

\* label and unit of packClassInf: code -> name, and code -> unit for the
\* codes with a truthy @unit; the last entry of a repeated code wins
classLabels(classes) ==
    [code \in {classes[n]["@code"] : n \in 1..Len(classes)} |->
        classes[CHOOSE n \in 1..Len(classes) :
                    /\ classes[n]["@code"] = code
                    /\ \A k \in 1..Len(classes) : classes[k]["@code"] = code => k <= n]["@name"]]

\* a unit map that is always empty
classUnitsNone(classes) == EmptyMap

classUnits(classes) ==
    LET withUnit == {n \in 1..Len(classes) :
                        "@unit" \in DOMAIN classes[n] /\ classes[n]["@unit"] # ""}
    IN [code \in {classes[n]["@code"] : n \in withUnit} |->
           classes[CHOOSE n \in withUnit :
                       /\ classes[n]["@code"] = code
                       /\ \A k \in withUnit : classes[k]["@code"] = code => k <= n]["@unit"]]

\* m[id] of packClassInf
classEntry(obj) ==
    LET classes == toArray(obj.CLASS)
    IN ("n" :> obj["@name"]) @@ ("l" :> classLabels(classes)) @@
       (IF DOMAIN classUnits(classes) # {} THEN ("u" :> classUnits(classes)) ELSE EmptyMap) @@
       (IF "@description" \in DOMAIN obj /\ obj["@description"] # ""
        THEN ("d" :> obj["@description"]) ELSE EmptyMap) @@
       (IF "EXPLANATION" \in DOMAIN obj /\ obj["EXPLANATION"] # ""
        THEN ("e" :> obj["EXPLANATION"]) ELSE EmptyMap)

\* the body of the for loop of packClassInf on the locals dims and m
classStep(acc, obj) ==
    [dims |-> Append(acc.dims, obj["@id"]),
     m |-> Put(acc.m, obj["@id"], classEntry(obj))]

RECURSIVE classPass(_, _)
classPass(list, n) ==
    IF n = 0 THEN [dims |-> <<>>, m |-> EmptyObject]
    ELSE classStep(classPass(list, n - 1), list[n])

\* packClassInf of a classInf whose CLASS_OBJ is a list
packClassInf(cInf) == classPass(cInf["CLASS_OBJ"].items, Len(cInf["CLASS_OBJ"].items))

\* key.startsWith("@") ? key.slice(1) : key, for the keys of a Value
StrippedKey ==
    [k \in Range(ALL_DIM_ATTRS) \cup {"@unit", "@annotation", "$"} |->
        IF k = "$" THEN "$"
        ELSE IF k = "@unit" THEN "unit"
        ELSE IF k = "@annotation" THEN "annotation"
        ELSE ALL_DIM_KEYS[CHOOSE n \in 1..Len(ALL_DIM_ATTRS) : ALL_DIM_ATTRS[n] = k]]

stripAtPrefix(obj) ==
    [k \in {StrippedKey[a] : a \in DOMAIN obj} |->
        obj[CHOOSE a \in DOMAIN obj : StrippedKey[a] = k]]

(***************************************************************************)
(* Inputs of the table, survey and metadata packers                        *)
(***************************************************************************)
MaxTables == 3
MaxCallItems == 2

TitleString == [isString |-> TRUE, s |-> "T"]
TitleObject == [isString |-> FALSE, obj |-> ("@no" :> "1") @@ ("$" :> "U")]

TableInfOf(id, title, org, name) ==
    ("@id" :> id) @@ ("GOV_ORG" :> (("@code" :> "00") @@ ("$" :> org))) @@
    ("STATISTICS_NAME" :> name) @@ ("TITLE" :> title)

\* TableInf entries over two ids, two titles, two organizations, two series
TableInfs ==
    {TableInfOf(id, title, org, name) :
        id \in {"1", "2"}, title \in {TitleString, TitleObject},
        org \in {"A", "B"}, name \in {"S", "R"}}

\* a few TableInf entries: an entry, the same id under another title, the same
\* id under another organization, another id
FewTableInfs ==
    {TableInfOf("1", TitleString, "A", "S"), TableInfOf("1", TitleObject, "A", "S"),
     TableInfOf("1", TitleString, "B", "S"), TableInfOf("2", TitleString, "A", "S")}

ListInfOf(id, org) ==
    ("@id" :> id) @@ ("STAT_NAME" :> (("@code" :> id) @@ ("$" :> "N"))) @@
    ("GOV_ORG" :> (("@code" :> "00") @@ ("$" :> org)))

ListInfs == {ListInfOf(id, org) : id \in {"1", "2"}, org \in {"A", "B"}}

\* classification trees for packClassInf: CLASS_OBJ a list or a single object
ClassInfs ==
    {("CLASS_OBJ" :> Arr(t)) : t \in CoreTrees \cup {<<>>}}
    \cup {("CLASS_OBJ" :> Arr(<<ClassObjOf("tab", One(ClassX)) @@ ("@description" :> "D")
                                 @@ ("EXPLANATION" :> "")>>)),
          ("CLASS_OBJ" :> One(ClassObjOf("tab", Arr(<<ClassX, ClassY>>))))}

\* the state of a call at its entry
CallEntry(op, arg) ==
    [op |-> op, arg |-> arg,
     acc |-> IF op = "packClassInf" THEN [dims |-> <<>>, m |-> EmptyObject]
             ELSE IF op = "stripAtPrefix" THEN EmptyMap
             ELSE EmptyObject,
     ids |-> {}, i |-> 1, pc |-> "loop", out |-> EmptyMap]

\* the calls of packTableInf with an argument of at most m entries of S, a
\* list or a single object
TableCalls(S, m) ==
    {CallEntry("packTableInf", Arr(l)) : l \in SeqsUpTo(S, m)}
    \cup {CallEntry("packTableInf", One(t)) : t \in S}

ListCalls(m) ==
    {CallEntry("packListInf", Arr(l)) : l \in SeqsUpTo(ListInfs, m)}
    \cup {CallEntry("packListInf", One(t)) : t \in ListInfs}

ClassCalls == {CallEntry("packClassInf", cInf) : cInf \in ClassInfs}

StripCalls == {CallEntry("stripAtPrefix", v) : v \in PlainRecords}

(***************************************************************************)
(* Actions of the calls                                                    *)
(***************************************************************************)
Running(c, op) == calls[c].op = op /\ calls[c].pc = "loop"

ArgList(c) == toArray(calls[c].arg)

\* packTableInf, an entry whose id is new: if (!ids.has(id)) { ...push... }
TableRowNew ==
    /\ \E c \in 1..Len(calls) :
          /\ Running(c, "packTableInf") /\ calls[c].i <= Len(ArgList(c))
          /\ ArgList(c)[calls[c].i]["@id"] \notin seenIds(calls, c)
          /\ LET step == tableStep(calls[c].acc, seenIds(calls, c), ArgList(c)[calls[c].i])
             IN calls' = [calls EXCEPT ![c].acc = step.tbls, ![c].ids = step.ids,
                                       ![c].i = calls[c].i + 1]
    /\ UNCHANGED <<gvars, dvars, nvars, hvars>>

\* packTableInf, an entry whose id was seen: no row is pushed
TableRowDuplicate ==
    /\ \E c \in 1..Len(calls) :
          /\ Running(c, "packTableInf") /\ calls[c].i <= Len(ArgList(c))
          /\ ArgList(c)[calls[c].i]["@id"] \in seenIds(calls, c)
          /\ LET step == tableStep(calls[c].acc, seenIds(calls, c), ArgList(c)[calls[c].i])
             IN calls' = [calls EXCEPT ![c].acc = step.tbls, ![c].ids = step.ids,
                                       ![c].i = calls[c].i + 1]
    /\ UNCHANGED <<gvars, dvars, nvars, hvars>>

\* packTableInf: return { tbls }
TableReturn ==
    /\ \E c \in 1..Len(calls) :
          /\ Running(c, "packTableInf") /\ calls[c].i > Len(ArgList(c))
          /\ calls' = [calls EXCEPT ![c].out = [tbls |-> calls[c].acc], ![c].pc = "done"]
    /\ UNCHANGED <<gvars, dvars, nvars, hvars>>

\* packListInf, one iteration of the for loop
ListRow ==
    /\ \E c \in 1..Len(calls) :
          /\ Running(c, "packListInf") /\ calls[c].i <= Len(ArgList(c))
          /\ calls' = [calls EXCEPT ![c].acc = listStep(calls[c].acc, ArgList(c)[calls[c].i]),
                                    ![c].i = calls[c].i + 1]
    /\ UNCHANGED <<gvars, dvars, nvars, hvars>>

\* packListInf: return { svys }
ListReturn ==
    /\ \E c \in 1..Len(calls) :
          /\ Running(c, "packListInf") /\ calls[c].i > Len(ArgList(c))
          /\ calls' = [calls EXCEPT ![c].out = [svys |-> calls[c].acc], ![c].pc = "done"]
    /\ UNCHANGED <<gvars, dvars, nvars, hvars>>

\* packClassInf: for (const obj of classInf.CLASS_OBJ) on a CLASS_OBJ that is a
\* single object throws a TypeError (an object is not iterable)
ClassNotIterable ==
    /\ \E c \in 1..Len(calls) :
          /\ Running(c, "packClassInf")
          /\ ~calls[c].arg["CLASS_OBJ"].isArray
          /\ calls' = [calls EXCEPT ![c].pc = "error"]
    /\ UNCHANGED <<gvars, dvars, nvars, hvars>>

\* packClassInf, one iteration of the for loop
ClassObjStep ==
    /\ \E c \in 1..Len(calls) :
          /\ Running(c, "packClassInf")
          /\ calls[c].arg["CLASS_OBJ"].isArray
          /\ calls[c].i <= Len(calls[c].arg["CLASS_OBJ"].items)
          /\ calls' = [calls EXCEPT
                          ![c].acc = classStep(calls[c].acc,
                                               calls[c].arg["CLASS_OBJ"].items[calls[c].i]),
                          ![c].i = calls[c].i + 1]
    /\ UNCHANGED <<gvars, dvars, nvars, hvars>>

\* packClassInf: return { dims, m }
ClassReturn ==
    /\ \E c \in 1..Len(calls) :
          /\ Running(c, "packClassInf")
          /\ calls[c].arg["CLASS_OBJ"].isArray
          /\ calls[c].i > Len(calls[c].arg["CLASS_OBJ"].items)
          /\ calls' = [calls EXCEPT ![c].out = calls[c].acc, ![c].pc = "done"]
    /\ UNCHANGED <<gvars, dvars, nvars, hvars>>

\* stripAtPrefix: the for-in loop and the return
StripCall ==
    /\ \E c \in 1..Len(calls) :
          /\ Running(c, "stripAtPrefix")
          /\ calls' = [calls EXCEPT ![c].out = stripAtPrefix(calls[c].arg), ![c].pc = "done"]
    /\ UNCHANGED <<gvars, dvars, nvars, hvars>>

\* one call of packTableInf, on a list or on a single object
InitTables ==
    /\ \/ \E n \in 0..MaxTables : \E l \in SeqsOf(TableInfs, n) :
             calls = <<CallEntry("packTableInf", Arr(l))>>
       \/ \E t \in TableInfs : calls = <<CallEntry("packTableInf", One(t))>>
    /\ IdleG /\ IdleD /\ IdleN /\ IdleH

NextTables ==
    \/ TableRowNew
    \/ TableRowDuplicate
    \/ TableReturn

SpecTables == InitTables /\ [][NextTables]_vars

(***************************************************************************)
(* The get_tables handler of index.ts: duplicates are removed by the       *)
(* tableToString key, the survivors grouped by organization and series.    *)
(***************************************************************************)
\* t.TITLE['@no'] and t.TITLE.$ of a TITLE that is a string are undefined
titlePart(title, key) ==
    IF title.isString \/ key \notin DOMAIN title.obj THEN Undefined ELSE title.obj[key]

\* `${t['@id']},${t.TITLE['@no']},${t.TITLE.$},${t.STATISTICS_NAME},${t.GOV_ORG.$}`
\* as the list of its interpolated parts (no modelled part holds a comma)
tableToString(t) ==
    <<t["@id"], ",", titlePart(t["TITLE"], "@no"), ",", titlePart(t["TITLE"], "$"), ",",
      t["STATISTICS_NAME"], ",", t["GOV_ORG"]["$"]>>

\* rawTables.filter(...) with the seenStrings set, on the first n entries
RECURSIVE filterSeenStrings(_, _)
filterSeenStrings(rawTables, n) ==
    IF n = 0 THEN <<>>
    ELSE IF \E k \in 1..(n - 1) : tableToString(rawTables[k]) = tableToString(rawTables[n])
         THEN filterSeenStrings(rawTables, n - 1)
         ELSE Append(filterSeenStrings(rawTables, n - 1), rawTables[n])

\* the loop that fills tableGrouped, on the first n entries of tableList
RECURSIVE tableGroupedPass(_, _)
tableGroupedPass(tableList, n) ==
    IF n = 0 THEN EmptyObject
    ELSE LET before == tableGroupedPass(tableList, n - 1)
             tbl == tableList[n]
             govOrg == tbl["GOV_ORG"]["$"]
             statisticsName == tbl["STATISTICS_NAME"]
             withOrg == IF govOrg \notin DOMAIN before.at
                        THEN Put(before, govOrg, EmptyObject) ELSE before
             subGroup == withOrg.at[govOrg]
             withName == IF statisticsName \notin DOMAIN subGroup.at
                         THEN Put(subGroup, statisticsName, <<>>) ELSE subGroup
         IN Put(withOrg, govOrg,
                Put(withName, statisticsName,
                    Append(withName.at[statisticsName],
                           [statsDataId |-> tbl["@id"],
                            title |-> titlePart(tbl["TITLE"], "$")])))

\* tableGrouped of the get_tables handler for the field TABLE_INF
tableGrouped(tableInf) ==
    LET tableList == filterSeenStrings(toArray(tableInf), Len(toArray(tableInf)))
    IN tableGroupedPass(tableList, Len(tableList))

(***************************************************************************)
(* Properties of packTableInf                                              *)
(***************************************************************************)
\* identical id, title, organization and series
SameTable(a, b) ==
    /\ a["@id"] = b["@id"] /\ a["TITLE"] = b["TITLE"]
    /\ a["GOV_ORG"]["$"] = b["GOV_ORG"]["$"] /\ a["STATISTICS_NAME"] = b["STATISTICS_NAME"]

\* the first n entries of list without the later exact duplicates
RECURSIVE WithoutLaterDuplicates(_, _)
WithoutLaterDuplicates(list, n) ==
    IF n = 0 THEN <<>>
    ELSE IF \E k \in 1..(n - 1) : SameTable(list[k], list[n])
         THEN WithoutLaterDuplicates(list, n - 1)
         ELSE Append(WithoutLaterDuplicates(list, n - 1), list[n])

\* the rows of all the groups of a TablePacked
RowsOf(packed) ==
    {<<o, s, n>> : o \in DOMAIN packed.tbls.at, s \in Range(packed.tbls.keys) \cup
                       UNION {DOMAIN packed.tbls.at[g].at : g \in DOMAIN packed.tbls.at},
                   n \in 1..MaxTables + 1}

RowPositions(packed) ==
    {p \in RowsOf(packed) :
        /\ p[2] \in DOMAIN packed.tbls.at[p[1]].at
        /\ p[3] <= Len(packed.tbls.at[p[1]].at[p[2]].r)}

RowId(packed, p) == packed.tbls.at[p[1]].at[p[2]].r[p[3]][1]

Supplied(field) ==
    IF field \in DOMAIN dataInf THEN toArray(dataInf[field]) ELSE <<>>

\* the value records whose annotation was recorded: a stored value with a
\* non-empty @annotation
Annotated ==
    {i \in 1..Len(VALUE) :
        /\ "@annotation" \in DOMAIN VALUE[i] /\ VALUE[i]["@annotation"] # ""
        /\ i \notin Dropped}

OptionalKeysAt(notes, annotations) ==
    /\ ("pivotDim" \in DOMAIN Packed) = (UnitCandidates # {})
    /\ ("fixed" \in DOMAIN Packed) =
          (\E k \in InputDims : k \notin Range(OutDims) /\
                                ~(HasPivot /\ Packed["pivotDim"] = k))
    /\ ("annRows" \in DOMAIN Packed) = (Annotated # {})
    /\ ("na" \in DOMAIN Packed) = (notes # <<>>)
    /\ ("annDict" \in DOMAIN Packed) = (annotations # <<>>)
    /\ "pivotDim" \in DOMAIN Packed => Packed["pivotDim"] # ""
    /\ "fixed" \in DOMAIN Packed => DOMAIN Packed["fixed"] # {}
    /\ "annRows" \in DOMAIN Packed => Packed["annRows"] # <<>>
    /\ "na" \in DOMAIN Packed => DOMAIN Packed["na"] # {}
    /\ "annDict" \in DOMAIN Packed => DOMAIN Packed["annDict"] # {}

\* C13: pivotDim is present iff a pivot axis was detected, fixed iff a
\* dimension was promoted, annRows iff an annotation was recorded, na and
\* annDict iff the source supplied at least one note / annotation entry; each
\* is non-empty when present.
C13_OptionalKeys ==
    dpc = "done" => OptionalKeysAt(Supplied("NOTE"), Supplied("ANNOTATION"))

\* The statement above with the entries of NOTE and ANNOTATION counted as the
\* packer reads them (field?.length): a single object counts for none.
OptionalKeysByLength ==
    dpc = "done" =>
        OptionalKeysAt(IF hasLength(dataInf, "NOTE") THEN dataInf["NOTE"].items ELSE <<>>,
                       IF hasLength(dataInf, "ANNOTATION") THEN dataInf["ANNOTATION"].items
                       ELSE <<>>)

(***************************************************************************)
(* Calls for distinct requests, interleaved at every step: two calls of    *)
(* packTableInf, or a call of packListInf, packClassInf or stripAtPrefix   *)
(* next to a call of packDataInf and a call of                             *)
(* optimizeGroupingByCommonElements.                                       *)
(***************************************************************************)
\* a pivot axis cat01 with a stored, an undeclared and a missing pivot code;
\* no pivot axis, VALUE a single object, NOTE a single object
CallDataInfs ==
    {<<("VALUE" :> Arr(<<("@cat01" :> CodeX) @@ ("@area" :> CodeX) @@ ("$" :> Num(1, 0)),
                         ("@cat01" :> CodeY) @@ ("@area" :> CodeX) @@ ("$" :> Str(<<"N">>)),
                         ("@area" :> CodeY) @@ ("@annotation" :> "#") @@ ("$" :> Str(<<"1">>))>>)),
       <<ClassObjOf("tab", Arr(<<ClassX, ClassY>>)),
         ClassObjOf("cat01", One(ClassX @@ ("@unit" :> "yen")))>>>>,
     <<("VALUE" :> One(("@tab" :> CodeX) @@ ("@annotation" :> "#") @@ ("$" :> Str(<<" ">>))))
          @@ ("NOTE" :> One(Note1)),
       <<ClassObjOf("area", Arr(<<ClassX @@ ("@unit" :> "yen"), ClassY>>))>>>>}

CallGroupItems ==
    {("area" :> "1") @@ ("$" :> "10"),
     ("area" :> "1") @@ ("time" :> "1") @@ ("$" :> "20"),
     ("time" :> "2") @@ ("$" :> "10")}

InitCalls ==
    /\ \/ /\ \E a, b \in TableCalls(FewTableInfs, MaxCallItems) : calls = <<a, b>>
          /\ IdleG /\ IdleD
       \/ /\ \E a \in ListCalls(MaxCallItems) \cup ClassCalls \cup StripCalls : calls = <<a>>
          /\ \E d \in CallDataInfs : dataInf = d[1] /\ classInf = d[2]
          /\ DataLocalsAtEntry
          /\ \E n \in 0..MaxCallItems : data \in SeqsOf(CallGroupItems, n)
          /\ remaining = data /\ groups = <<>> /\ gpc = "loop" /\ gresult = EmptyMap
    /\ IdleN /\ IdleH

NextCalls ==
    \/ TableRowNew
    \/ TableRowDuplicate
    \/ TableReturn
    \/ ListRow
    \/ ListReturn
    \/ ClassNotIterable
    \/ ClassObjStep
    \/ ClassReturn
    \/ StripCall
    \/ PackPivot
    \/ PackDims
    \/ PackRowNoPivotCode
    \/ PackRowUnknownCode
    \/ PackRowWrite
    \/ PackAssemble
    \/ GroupEmptyInput
    \/ GroupLastItem
    \/ GroupPivotAlone
    \/ GroupCluster
    \/ GroupLoopExit
    \/ GroupSort

SpecCalls == InitCalls /\ [][NextCalls]_vars

\* optimizeGroupingByCommonElements as a function: the while loop from the
\* list rem with the groups gs, then the sort
RECURSIVE groupingLoop(_, _)
groupingLoop(rem, gs) ==
    IF Len(rem) = 0 THEN gs
    ELSE IF Len(rem) = 1 THEN Append(gs, singletonGroup(rem[1]))
    ELSE IF Best(rem).count = 0
         THEN groupingLoop(Tail(rem), Append(gs, singletonGroup(rem[1])))
    ELSE groupingLoop(nextRemaining(rem, Best(rem).props),
                      Append(gs, createGroup(groupItems(rem, Best(rem).props))))

optimizeGroupingByCommonElements(d) == SortGroups(groupingLoop(d, <<>>))

\* the result of a call of the list calls, run alone on its argument
Alone(call) ==
    IF call.op = "packTableInf" THEN packTableInf(call.arg)
    ELSE IF call.op = "packListInf" THEN packListInf(call.arg)
    ELSE IF call.op = "packClassInf" THEN packClassInf(call.arg)
    ELSE stripAtPrefix(call.arg)

\* C14: no compaction operation changes its argument: at every step the
\* argument of each call (the list and every record of it) is what it was.
C14_InputsUnchanged ==
    [][/\ data' = data
       /\ dataInf' = dataInf
       /\ classInf' = classInf
       /\ \A c \in 1..Len(calls) : calls'[c].arg = calls[c].arg]_vars

C14_Witness ==
    /\ gpc = "done" /\ Len(data) = 2 /\ remaining # data
    /\ dpc = "done" /\ Len(OutRows) = 2
    /\ \E c \in 1..Len(calls) : calls[c].pc = "done" /\ calls[c].i > 2

\* C15: the result of each of the interleaved calls is the result of running
\* that call alone on its argument.
C15_Independent ==
    /\ \A c \in 1..Len(calls) : calls[c].pc = "done" => calls[c].out = Alone(calls[c])
    /\ dpc = "done" => pk.packed = packDataInf(dataInf, classInf)
    /\ gpc = "done" => groups = optimizeGroupingByCommonElements(data)

\* two calls of packTableInf that have both pushed a row for the same id, the
\* second one entered while the first was in its loop
C15_Witness ==
    /\ Len(calls) = 2
    /\ calls[1].pc = "done" /\ calls[2].pc = "done"
    /\ calls[1].ids \cap calls[2].ids # {}
    /\ Len(toArray(calls[1].arg)) = 2 /\ Len(toArray(calls[2].arg)) = 2

\* C16: no packer raises an error: no call ends in an error.
C16_Total ==
    /\ \A c \in 1..Len(calls) : calls[c].pc # "error"
    /\ dpc # "error" /\ gpc # "error"

\* The statement above for the arguments whose CLASS_OBJ is a list.
TotalOnLists ==
    \A c \in 1..Len(calls) :
        calls[c].pc = "error" =>
            calls[c].op = "packClassInf" /\ ~calls[c].arg["CLASS_OBJ"].isArray

(***************************************************************************)
(* Properties of the sizes reported by optimizeGroupingByCommonElements    *)
(***************************************************************************)
\* C17 as stated: for a non-empty input totalCompressedSize is at most
\* totalOriginalSize and the ratio is not negative; for the empty input both
\* sizes and the ratio are 0.
C17_NeverLarger ==
    gpc = "done" =>
        IF Len(data) = 0
        THEN /\ gresult.totalOriginalSize = 0 /\ gresult.totalCompressedSize = 0
             /\ gresult.compressionRatio.num = 0
        ELSE /\ gresult.totalCompressedSize <= gresult.totalOriginalSize
             /\ gresult.compressionRatio.num >= 0

\* C17 amended: the grouped form can be larger than the input.  The ratio is
\* (originalSize - compressedSize) / originalSize, negative exactly when the
\* serialized {groups} is longer than the serialized input; for an input of
\* one item the grouped form is longer by 37 characters (38 when the item has
\* no metadata key), so the ratio is negative; for the empty input both sizes
\* and the ratio are 0.
C17_SizesAndRatio ==
    gpc = "done" =>
        IF Len(data) = 0
        THEN /\ gresult.totalOriginalSize = 0 /\ gresult.totalCompressedSize = 0
             /\ gresult.compressionRatio.num = 0
        ELSE /\ gresult.totalOriginalSize > 0
             /\ gresult.compressionRatio.den = gresult.totalOriginalSize
             /\ gresult.compressionRatio.num =
                    gresult.totalOriginalSize - gresult.totalCompressedSize
             /\ Len(data) = 1 =>
                    /\ gresult.totalCompressedSize =
                           gresult.totalOriginalSize + 37
                               + (IF DOMAIN data[1] = {"$"} THEN 1 ELSE 0)
                    /\ gresult.compressionRatio.num < 0

\* an input of several items whose grouped form is longer than the input
C17_Witness ==
    /\ gpc = "done" /\ Len(data) >= 2
    /\ gresult.totalCompressedSize > gresult.totalOriginalSize
    /\ gresult.compressionRatio.num < 0
    /\ \E g \in 1..Len(groups) : Len(groups[g].values) >= 2

\* an input whose grouped form is shorter than the input
SmallerGroupedForm ==
    gpc = "done" /\ gresult.totalCompressedSize < gresult.totalOriginalSize

(***************************************************************************)
(* The tool handlers get_tables, get_surveys, get_metadata, get_data, in   *)
(* the variant that calls the packers ("packing") and in the variant of    *)
(* index.ts ("utils").  handler holds what the call meets (the API key,    *)
(* the outcome of fetch, the body, RESULT.STATUS, DATALIST_INF, NEXT_KEY,  *)
(* whether the compaction step throws), the position pc, and what the call *)
(* has done: statusChecked, compactions (how many times the compaction     *)
(* step was entered) and content (the number of parts returned).           *)
(***************************************************************************)
Tools == {"get_tables", "get_surveys", "get_metadata", "get_data"}

Statuses == {0, 1, 100}

\* a status check that lets every response through
statusPassesAlways(h) == TRUE

\* RESULT.STATUS !== 0 (|| !DATALIST_INF for get_tables and get_surveys) throws
statusPasses(h) ==
    /\ h.status = 0
    /\ h.tool \in {"get_tables", "get_surveys"} => h.hasDataList

InitHandler ==
    /\ \E tool \in Tools, variant \in {"packing", "utils"}, appId \in BOOLEAN,
          transport \in {"rejects", "notOk", "ok"}, json \in BOOLEAN,
          status \in Statuses, hasDataList \in BOOLEAN, nextKey \in BOOLEAN,
          throws \in BOOLEAN :
          /\ variant = "packing" => appId
          /\ handler = [tool |-> tool, variant |-> variant, appId |-> appId,
                        transport |-> transport, json |-> json, status |-> status,
                        hasDataList |-> hasDataList, nextKey |-> nextKey,
                        throws |-> throws, pc |-> "start", statusChecked |-> FALSE,
                        compactions |-> 0, content |-> 0]
    /\ IdleG /\ IdleD /\ IdleN /\ IdleC

\* index.ts: if (!appId) throw (the packing variant checks the key in init())
HandlerNoKey ==
    /\ handler.pc = "start" /\ ~handler.appId
    /\ handler' = [handler EXCEPT !.pc = "error"]
    /\ UNCHANGED <<gvars, dvars, nvars, cvars>>

\* await fetch(...) rejects
HandlerFetchRejects ==
    /\ handler.pc = "start" /\ handler.appId
    /\ handler.transport = "rejects"
    /\ handler' = [handler EXCEPT !.pc = "error"]
    /\ UNCHANGED <<gvars, dvars, nvars, cvars>>

\* await fetch(...) resolves
HandlerFetch ==
    /\ handler.pc = "start" /\ handler.appId
    /\ handler.transport # "rejects"
    /\ handler' = [handler EXCEPT !.pc = "response"]
    /\ UNCHANGED <<gvars, dvars, nvars, cvars>>

\* if (!response.ok) throw
HandlerNotOk ==
    /\ handler.pc = "response" /\ handler.transport = "notOk"
    /\ handler' = [handler EXCEPT !.pc = "error"]
    /\ UNCHANGED <<gvars, dvars, nvars, cvars>>

\* await response.json() rejects
HandlerBodyRejected ==
    /\ handler.pc = "response" /\ handler.transport = "ok" /\ ~handler.json
    /\ handler' = [handler EXCEPT !.pc = "error"]
    /\ UNCHANGED <<gvars, dvars, nvars, cvars>>

\* await response.json() resolves
HandlerBody ==
    /\ handler.pc = "response" /\ handler.transport = "ok" /\ handler.json
    /\ handler' = [handler EXCEPT !.pc = "status"]
    /\ UNCHANGED <<gvars, dvars, nvars, cvars>>

\* if (RESULT.STATUS !== 0 ...) throw
HandlerBadStatus ==
    /\ handler.pc = "status" /\ ~statusPasses(handler)
    /\ handler' = [handler EXCEPT !.pc = "error", !.statusChecked = TRUE]
    /\ UNCHANGED <<gvars, dvars, nvars, cvars>>

\* the status check passes
HandlerStatusOk ==
    /\ handler.pc = "status" /\ statusPasses(handler)
    /\ handler' = [handler EXCEPT !.pc = "compact", !.statusChecked = TRUE]
    /\ UNCHANGED <<gvars, dvars, nvars, cvars>>

\* the compaction step (packTableInf, packListInf, packClassInf, packDataInf;
\* in index.ts the inline grouping, or optimizeGroupingByCommonElements) throws
HandlerCompactThrows ==
    /\ handler.pc = "compact" /\ handler.throws
    /\ handler' = [handler EXCEPT !.pc = "error", !.compactions = handler.compactions + 1]
    /\ UNCHANGED <<gvars, dvars, nvars, cvars>>

\* the compaction step returns; return { content }: one part, and a second one
\* for NEXT_KEY in get_tables and get_surveys
HandlerCompactReturn ==
    /\ handler.pc = "compact" /\ ~handler.throws
    /\ handler' = [handler EXCEPT
                      !.pc = "returned",
                      !.compactions = handler.compactions + 1,
                      !.content = IF handler.tool \in {"get_tables", "get_surveys"}
                                     /\ handler.nextKey THEN 2 ELSE 1]
    /\ UNCHANGED <<gvars, dvars, nvars, cvars>>

NextHandler ==
    \/ HandlerNoKey
    \/ HandlerFetchRejects
    \/ HandlerFetch
    \/ HandlerNotOk
    \/ HandlerBodyRejected
    \/ HandlerBody
    \/ HandlerBadStatus
    \/ HandlerStatusOk
    \/ HandlerCompactThrows
    \/ HandlerCompactReturn

SpecHandler == InitHandler /\ [][NextHandler]_vars

\* the call has reached the end of what it can do
HandlerEnded == ~ENABLED NextHandler

\* C18: the compaction step runs only after the response was HTTP-ok and its
\* RESULT.STATUS was checked to be 0, at most once per call; on a transport
\* failure or a non-zero status the handler ends in an error, with no
\* compaction and no content.
C18_CompactAfterStatus ==
    /\ handler.compactions <= 1
    /\ handler.compactions = 1 \/ handler.pc = "compact" =>
          /\ handler.transport = "ok" /\ handler.status = 0
          /\ handler.statusChecked
    /\ handler.transport # "ok" \/ handler.status # 0 =>
          /\ handler.compactions = 0 /\ handler.content = 0
          /\ handler.pc \in {"start", "response", "status", "error"}
          /\ HandlerEnded => handler.pc = "error"
    /\ handler.content > 0 => handler.compactions = 1

C18_Witness ==
    /\ handler.pc = "error" /\ handler.statusChecked
    /\ handler.transport = "ok" /\ handler.status # 0
    /\ handler.compactions = 0 /\ handler.content = 0

(***************************************************************************)
(* List-or-singleton fields of packDataInf                                 *)
(***************************************************************************)
\* a field supplied as a single object, as the one-element list of it
AsList(value) == IF value.isArray THEN value ELSE Arr(<<value.item>>)

\* dataInf with the fields of S supplied as lists
WithLists(dInf, S) ==
    [f \in DOMAIN dInf |-> IF f \in S THEN AsList(dInf[f]) ELSE dInf[f]]

\* the classification tree with every CLASS supplied as a list
WithClassLists(objs) ==
    [j \in 1..Len(objs) |-> [objs[j] EXCEPT !["CLASS"] = AsList(objs[j]["CLASS"])]]

\* C19: for VALUE, NOTE, ANNOTATION and CLASS, a single object gives the same
\* packed output as the one-element list containing that object.
C19_SingletonAsList ==
    dpc = "done" =>
        /\ \A f \in DOMAIN dataInf : Packed = packDataInf(WithLists(dataInf, {f}), classInf)
        /\ Packed = packDataInf(dataInf, WithClassLists(classInf))

\* The statement above for the fields read through toArray: VALUE and CLASS.
SingletonAsListWhereCoerced ==
    dpc = "done" =>
        /\ Packed = packDataInf(WithLists(dataInf, {"VALUE"}), classInf)
        /\ Packed = packDataInf(dataInf, WithClassLists(classInf))

\* a value cell: null, a number, or a non-empty string without white space at
\* its ends
ValueCell(x) ==
    \/ x = Null
    \/ x.t = "num"
    \/ /\ x.t = "str" /\ x.s # <<>>
       /\ x.s[1] \notin WhiteSpace /\ x.s[Len(x.s)] \notin WhiteSpace

\* C20: every row has |dims| + |valueCols| entries: first the values of a
\* record for the dims keys in dims order, then the value cells in valueCols
\* order, each null, a number or a non-empty trimmed string.
C20_RowShape ==
    dpc = "done" =>
        \A r \in 1..Len(OutRows) :
            /\ Len(OutRows[r]) = Len(OutDims) + Len(OutValueCols)
            /\ \E i \in 1..Len(VALUE) : SubSeq(OutRows[r], 1, Len(OutDims)) = TupleOf(VALUE[i])
            /\ \A c \in 1..Len(OutValueCols) : ValueCell(OutRows[r][Len(OutDims) + c])

C20_Witness ==
    /\ dpc = "done" /\ HasPivot
    /\ Len(OutDims) >= 1 /\ Len(OutValueCols) = 2
    /\ Len(OutRows) >= 2
    /\ \E r \in 1..Len(OutRows) :
          /\ OutRows[r][Len(OutDims) + 1].t = "str"
          /\ OutRows[r][Len(OutDims) + 2] = Null

(***************************************************************************)
(* Value columns of packDataInf (step 1)                                   *)
(***************************************************************************)
\* the code entries of the dimension that pivotDim names
PivotEntries ==
    toArray(classInf[CHOOSE j \in 1..Len(classInf) :
                        classInf[j]["@id"] = Packed["pivotDim"]].CLASS)

\* a code entry declares a unit: its @unit is a non-empty string
EntryDeclaresUnit(entry) == "@unit" \in DOMAIN entry /\ entry["@unit"] # ""

\* the column made from a code entry
ColumnOfEntry(col, entry) ==
    /\ col["code"] = entry["@code"]
    /\ col["label"] = entry["@name"]
    /\ ("unit" \in DOMAIN col) = EntryDeclaresUnit(entry)
    /\ "unit" \in DOMAIN col => col["unit"] = entry["@unit"]
    /\ DOMAIN col \subseteq {"code", "label", "unit"}

\* the value record the row pass has just read, and its group
JustRead == VALUE[pk.i - 1]
GroupOfJustRead == pk.groupMap.map[groupKey(dimValuesOf(JustRead, pk.dims))]

\* C21: when a pivot axis is found, valueCols has one column per code entry of
\* the axis, in declared order, with the entry's code, label, and unit exactly
\* when the entry declares one; the lookup sends each column's code to the
\* column's own index, and a record with pivot code c is written to the
\* column whose code is c.
C21_ColumnsOfAxis ==
    /\ dpc = "done" /\ HasPivot =>
          /\ Len(OutValueCols) = Len(PivotEntries)
          /\ \A n \in 1..Len(PivotEntries) : ColumnOfEntry(OutValueCols[n], PivotEntries[n])
          /\ DOMAIN pk.pivotIndex = {OutValueCols[n]["code"] : n \in 1..Len(OutValueCols)}
          /\ \A n \in 1..Len(OutValueCols) : pk.pivotIndex[OutValueCols[n]["code"]] = n - 1
    /\ dpc = "rows" /\ pk.i > 1 /\ pk.pivotId # Undefined =>
          \A n \in 1..Len(pk.valueCols) :
              /\ Attr(pk.pivotId) \in DOMAIN JustRead
              /\ JustRead[Attr(pk.pivotId)] = pk.valueCols[n]["code"]
              => GroupOfJustRead.values[n] = normalizeValue(JustRead["$"])

\* a pivot axis with a unit-declaring entry and one without, and a record
\* written to the second column
C21_Witness ==
    /\ dpc = "done" /\ HasPivot
    /\ Len(OutValueCols) >= 2
    /\ "unit" \in DOMAIN OutValueCols[1]
    /\ "unit" \notin DOMAIN OutValueCols[2]
    /\ \E i \in 1..Len(VALUE) :
          /\ Attr(Packed["pivotDim"]) \in DOMAIN VALUE[i]
          /\ VALUE[i][Attr(Packed["pivotDim"])] = OutValueCols[2]["code"]
    /\ \E r \in 1..Len(OutRows) : OutRows[r][Len(OutDims) + 2] # Null

(***************************************************************************)
(* annRows of packDataInf (steps 4 and 5)                                  *)
(***************************************************************************)
OutAnnRows == IF "annRows" \in DOMAIN Packed THEN Packed["annRows"] ELSE <<>>

\* the 0-based value column of a stored record
ColumnOf(i) ==
    IF HasPivot
    THEN (CHOOSE c \in 1..Len(OutValueCols) :
             OutValueCols[c]["code"] = VALUE[i][Attr(Packed["pivotDim"])]) - 1
    ELSE 0

\* the 0-based indices of the rows whose dims-tuple is t
RowsOfTuple(t) == {r - 1 : r \in {q \in 1..Len(OutRows) : RowTuples[q] = t}}

\* the 0-based indices of the rows whose dims-tuple serializes as t does
RowsOfGroupKey(t) ==
    {r - 1 : r \in {q \in 1..Len(OutRows) : groupKey(RowTuples[q]) = groupKey(t)}}

\* the number of entries of annRows equal to e
Entries(e) == Cardinality({n \in 1..Len(OutAnnRows) : OutAnnRows[n] = e})

\* annRows is, entry for record, the annotated stored records, each at one of
\* the rows rowsOf gives for its dims-tuple
AnnRowsAre(rowsOf(_)) ==
    /\ \A i \in Annotated : Cardinality(rowsOf(TupleOf(VALUE[i]))) = 1
    /\ LET EntryOf(i) == <<CHOOSE r \in rowsOf(TupleOf(VALUE[i])) : TRUE,
                           ColumnOf(i), VALUE[i]["@annotation"]>>
       IN \A e \in Range(OutAnnRows) \cup {EntryOf(i) : i \in Annotated} :
              Entries(e) = Cardinality({i \in Annotated : EntryOf(i) = e})
    /\ \A n \in 1..Len(OutAnnRows) :
          /\ 0 <= OutAnnRows[n][1] /\ OutAnnRows[n][1] < Len(OutRows)
          /\ 0 <= OutAnnRows[n][2] /\ OutAnnRows[n][2] < Len(OutValueCols)

\* C22: annRows holds one entry [r, c, code] for each input record that
\* carries an annotation code and was written to a cell, r being the final
\* index of the row of the record's dims-tuple and c the record's value
\* column, and no other entry; every entry has 0 <= r < |rows| and
\* 0 <= c < |valueCols|.
C22_AnnRows ==
    dpc = "done" => AnnRowsAre(RowsOfTuple)

\* The statement above with the row of a record found by the serialized form
\* of its dims-tuple, as the row pass finds it.
AnnRowsByGroupKey ==
    dpc = "done" => AnnRowsAre(RowsOfGroupKey)

\* the stored records written to the cell of 0-based row r and column c, their
\* row found by group key as the row pass finds it
WritersOf(r, c) ==
    {i \in 1..Len(VALUE) \ Dropped :
        /\ groupKey(TupleOf(VALUE[i])) = groupKey(RowTuples[r + 1])
        /\ ColumnOf(i) = c}

\* C27: every cell carries at most one annotation, the one of the record whose
\* value the cell holds: annRows has no two entries with the same (row,
\* column), and no annotation of an overwritten record stays on a cell.
C27_OneAnnotationPerCell ==
    dpc = "done" =>
        /\ \A m, n \in 1..Len(OutAnnRows) :
              m # n => <<OutAnnRows[m][1], OutAnnRows[m][2]>> # <<OutAnnRows[n][1], OutAnnRows[n][2]>>
        /\ \A n \in 1..Len(OutAnnRows) :
              LET holder == Last(WritersOf(OutAnnRows[n][1], OutAnnRows[n][2]))
              IN /\ holder \in Annotated
                 /\ VALUE[holder]["@annotation"] = OutAnnRows[n][3]

(***************************************************************************)
(* packClassInf alone, over classification trees with and without          *)
(* description and explanation                                             *)
(***************************************************************************)
\* the optional attributes of a dimension: a description that is absent, empty
\* or a text, an explanation that is absent or a text
Descriptions ==
    {d @@ e : d \in Optional("@description", {"", "D"}),
              e \in Optional("EXPLANATION", {"E"})}

\* one call of packClassInf: CLASS_OBJ a list of at most MaxClassObj
\* dimensions with distinct ids, or a single object
InitClass ==
    /\ \/ \E t \in ClassTrees(MaxClassObj) : \E f \in [1..Len(t) -> Descriptions] :
             calls = <<CallEntry("packClassInf",
                                 ("CLASS_OBJ" :> Arr([n \in 1..Len(t) |-> t[n] @@ f[n]])))>>
       \/ \E o \in ClassObjs :
             calls = <<CallEntry("packClassInf", ("CLASS_OBJ" :> One(o)))>>
    /\ IdleG /\ IdleD /\ IdleN /\ IdleH

NextClass ==
    \/ ClassNotIterable
    \/ ClassObjStep
    \/ ClassReturn

SpecClass == InitClass /\ [][NextClass]_vars

\* the call of SpecClass has returned { dims, m }
ClassReturned == Len(calls) = 1 /\ calls[1].op = "packClassInf" /\ calls[1].pc = "done"

SourceDims == calls[1].arg["CLASS_OBJ"].items
MetaOut == calls[1].out

\* the code entries of a dimension that declare a unit (a non-empty @unit)
UnitDeclaring(obj) ==
    {n \in 1..Len(toArray(obj.CLASS)) : EntryDeclaresUnit(toArray(obj.CLASS)[n])}

\* an optional text of a dimension is present when it is a non-empty string
HasText(obj, key) == key \in DOMAIN obj /\ obj[key] # ""

\* m[id] is the entry of the dimension obj
EntryOfDimension(entry, obj) ==
    LET entries == toArray(obj.CLASS)
    IN /\ entry["n"] = obj["@name"]
       /\ DOMAIN entry["l"] = {entries[n]["@code"] : n \in 1..Len(entries)}
       /\ \A n \in 1..Len(entries) : entry["l"][entries[n]["@code"]] = entries[n]["@name"]
       /\ ("u" \in DOMAIN entry) = (UnitDeclaring(obj) # {})
       /\ "u" \in DOMAIN entry =>
             /\ DOMAIN entry["u"] = {entries[n]["@code"] : n \in UnitDeclaring(obj)}
             /\ \A n \in UnitDeclaring(obj) : entry["u"][entries[n]["@code"]] = entries[n]["@unit"]
       /\ ("d" \in DOMAIN entry) = HasText(obj, "@description")
       /\ "d" \in DOMAIN entry => entry["d"] = obj["@description"]
       /\ ("e" \in DOMAIN entry) = HasText(obj, "EXPLANATION")
       /\ "e" \in DOMAIN entry => entry["e"] = obj["EXPLANATION"]
       /\ DOMAIN entry \subseteq {"n", "l", "u", "d", "e"}

\* C23: packClassInf lists the dimensions in input order; for each dimension
\* the label map sends every code to its label, the units sub-map is present
\* iff some code of the dimension declares a unit and then maps exactly the
\* unit-declaring codes to their units, and description / explanation are
\* present iff present on the source dimension.
C23_ClassEntries ==
    ClassReturned =>
        /\ MetaOut.dims = [n \in 1..Len(SourceDims) |-> SourceDims[n]["@id"]]
        /\ MetaOut.m.keys = MetaOut.dims
        /\ \A n \in 1..Len(SourceDims) :
              EntryOfDimension(MetaOut.m.at[SourceDims[n]["@id"]], SourceDims[n])

\* two dimensions: one with a units sub-map smaller than its label map and a
\* description, one with neither units nor description but an explanation
C23_Witness ==
    /\ ClassReturned
    /\ Len(MetaOut.dims) = 2
    /\ LET first == MetaOut.m.at[MetaOut.dims[1]]
           second == MetaOut.m.at[MetaOut.dims[2]]
       IN /\ "u" \in DOMAIN first
          /\ DOMAIN first["u"] # DOMAIN first["l"]
          /\ "d" \in DOMAIN first /\ "e" \notin DOMAIN first
          /\ "u" \notin DOMAIN second
          /\ "d" \notin DOMAIN second /\ "e" \in DOMAIN second
          /\ HasText(SourceDims[1], "@description")
          /\ "@description" \in DOMAIN SourceDims[2]

(***************************************************************************)
(* Rows and groups of packTableInf                                         *)
(***************************************************************************)
\* the call of SpecTables has returned { tbls }
TableReturned == Len(calls) = 1 /\ calls[1].op = "packTableInf" /\ calls[1].pc = "done"

TableList == toArray(calls[1].arg)
TableOut == calls[1].out

\* the position in the input of the first entry with this id
FirstOccurrence(id) ==
    CHOOSE n \in 1..Len(TableList) :
        /\ TableList[n]["@id"] = id
        /\ \A k \in 1..Len(TableList) : TableList[k]["@id"] = id => n <= k

\* the title itself when it is a bare string, its text field otherwise
TitleText(title) == IF title.isString THEN title.s ELSE title.obj["$"]

RowAt(p) == TableOut.tbls.at[p[1]].at[p[2]].r[p[3]]

\* C24: each distinct table id of the input is in exactly one row of the whole
\* output, under the organization and series name of its first occurrence, as
\* [id, title text]; the rows of a group keep input order.
C24_RowPerId ==
    TableReturned =>
        /\ \A n \in 1..Len(TableList) :
              LET id == TableList[n]["@id"]
                  first == TableList[FirstOccurrence(id)]
                  holders == {p \in RowPositions(TableOut) : RowId(TableOut, p) = id}
              IN /\ Cardinality(holders) = 1
                 /\ \A p \in holders :
                       /\ p[1] = first["GOV_ORG"]["$"]
                       /\ p[2] = first["STATISTICS_NAME"]
                       /\ RowAt(p) = <<id, TitleText(first["TITLE"])>>
        /\ \A p \in RowPositions(TableOut) :
              \E n \in 1..Len(TableList) : TableList[n]["@id"] = RowId(TableOut, p)
        /\ \A p, q \in RowPositions(TableOut) :
              p[1] = q[1] /\ p[2] = q[2] /\ p[3] < q[3] =>
                  FirstOccurrence(RowId(TableOut, p)) < FirstOccurrence(RowId(TableOut, q))

\* an id that comes back under another organization and another kind of
\* title, with another id in between
C24_Witness ==
    /\ TableReturned
    /\ Len(TableList) = 3
    /\ TableList[1]["@id"] = TableList[3]["@id"]
    /\ TableList[1]["@id"] # TableList[2]["@id"]
    /\ TableList[1]["GOV_ORG"]["$"] # TableList[3]["GOV_ORG"]["$"]
    /\ ~TableList[1]["TITLE"].isString /\ TableList[3]["TITLE"].isString
    /\ TableList[2]["GOV_ORG"]["$"] = TableList[1]["GOV_ORG"]["$"]
    /\ TableList[2]["STATISTICS_NAME"] = TableList[1]["STATISTICS_NAME"]
    /\ Cardinality(RowPositions(TableOut)) = 2

\* C28: every (organization, series name) group of the output holds at least
\* one row and every organization at least one series group; a duplicate id
\* that comes back under another organization or series leaves no empty
\* group.
C28_NoEmptyGroup ==
    TableReturned =>
        \A o \in DOMAIN TableOut.tbls.at :
            /\ DOMAIN TableOut.tbls.at[o].at # {}
            /\ \A s \in DOMAIN TableOut.tbls.at[o].at :
                  Len(TableOut.tbls.at[o].at[s].r) >= 1

\* the (organization, series name) groups of the output
GroupsOut ==
    {g \in (DOMAIN TableOut.tbls.at) \X
              (UNION {DOMAIN TableOut.tbls.at[o].at : o \in DOMAIN TableOut.tbls.at}) :
        g[2] \in DOMAIN TableOut.tbls.at[g[1]].at}

\* What holds of the groups: there is a group for the organization and series
\* of every input entry, and no other.
GroupPerEntry ==
    TableReturned =>
        GroupsOut = {<<TableList[n]["GOV_ORG"]["$"], TableList[n]["STATISTICS_NAME"]>> :
                        n \in 1..Len(TableList)}

(***************************************************************************)
(* The greedy step of optimizeGroupingByCommonElements, over longer lists  *)
(* of items that differ in their metadata only                             *)
(***************************************************************************)
MaxLongItems == 4

GreedyItemSet ==
    {m @@ ("$" :> "10") : m \in UNION {[D -> MetaVals] : D \in SUBSET MetaKeys}}

\* the state at the entry of optimizeGroupingByCommonElements for an argument
\* of at most m such items
GreedyEntry(m) ==
    /\ \E n \in 0..m : data \in SeqsOf(GreedyItemSet, n)
    /\ remaining = data
    /\ groups = <<>>
    /\ gpc = "loop"
    /\ gresult = EmptyMap
    /\ IdleD /\ IdleN /\ IdleC /\ IdleH

InitGreedy == GreedyEntry(MaxLongItems)

SpecGreedy == InitGreedy /\ [][NextGrouping]_vars

\* the non-value attributes on which two items agree
SharedKeys(a, b) == {k \in (DOMAIN a \cap DOMAIN b) \ {"$"} : a[k] = b[k]}

\* the largest number of attributes the pivot shares with another remaining item
BestCount ==
    CHOOSE m \in 0..Cardinality(MetaKeys) :
        /\ \E i \in 2..Len(remaining) : Cardinality(SharedKeys(remaining[1], remaining[i])) = m
        /\ \A i \in 2..Len(remaining) : Cardinality(SharedKeys(remaining[1], remaining[i])) <= m

\* the first other item that reaches the largest number
FirstBest ==
    CHOOSE i \in 2..Len(remaining) :
        /\ Cardinality(SharedKeys(remaining[1], remaining[i])) = BestCount
        /\ \A j \in 2..(i - 1) : Cardinality(SharedKeys(remaining[1], remaining[j])) < BestCount

\* item agrees with the pivot on all the keys the pivot shares with FirstBest
AgreesWithPivot(item) ==
    \A k \in SharedKeys(remaining[1], remaining[FirstBest]) :
        k \in DOMAIN item /\ item[k] = remaining[1][k]

\* C25: in an iteration with at least two remaining items and a best count
\* above zero, the emitted group is made of exactly the remaining items that
\* agree with the pivot on all keys of the shared map of the first other item
\* reaching the maximum, and the other items are carried over in their order;
\* with a best count of zero the pivot is emitted alone and only it is removed.
C25_GreedyStep ==
    [][gpc = "loop" /\ Len(remaining) >= 2 =>
          /\ Len(groups') = Len(groups) + 1
          /\ SubSeq(groups', 1, Len(groups)) = groups
          /\ IF BestCount > 0
             THEN /\ groups'[Len(groups')].members = SelectSeq(remaining, AgreesWithPivot)
                  /\ Len(groups'[Len(groups')].values) = Len(groups'[Len(groups')].members)
                  /\ remaining' = SelectSeq(remaining, LAMBDA item : ~AgreesWithPivot(item))
             ELSE /\ groups'[Len(groups')].members = <<remaining[1]>>
                  /\ groups'[Len(groups')].metadata =
                         Restrict(remaining[1], DOMAIN remaining[1] \ {"$"})
                  /\ groups'[Len(groups')].values = <<Restrict(remaining[1], {"$"})>>
                  /\ remaining' = Tail(remaining)]_vars

\* four remaining items: two others share one attribute each with the pivot,
\* on different keys; the first of them decides, the pivot and it are grouped
\* and the two others are carried over
C25_Witness ==
    /\ gpc = "loop" /\ Len(data) = 4 /\ Len(remaining) = 2
    /\ Len(groups) = 1 /\ Len(groups[1].members) = 2
    /\ groups[1].members = <<data[1], data[2]>>
    /\ remaining = <<data[3], data[4]>>
    /\ Cardinality(SharedKeys(data[1], data[2])) = 1
    /\ Cardinality(SharedKeys(data[1], data[3])) = 1
    /\ SharedKeys(data[1], data[2]) # SharedKeys(data[1], data[3])
    /\ data[3] # data[4]

(***************************************************************************)
(* Termination of optimizeGroupingByCommonElements.  The function is a     *)
(* synchronous loop that runs to its return: every enabled step is taken.  *)
(***************************************************************************)
\* the values of "$" are read by no test of the loop: the inputs are the lists
\* of at most MaxItems items that differ in their metadata
InitGroupingLive == GreedyEntry(MaxItems)

SpecGroupingLive == InitGroupingLive /\ [][NextGrouping]_vars /\ WF_vars(NextGrouping)

\* the number of items the while loop has still to place in a group: those of
\* remaining while the loop runs, none once it is left
ToPlace == IF gpc = "loop" THEN Len(remaining) ELSE 0

\* C26: optimizeGroupingByCommonElements terminates on every input: every
\* outer iteration emits one group, which holds the pivot, and so lowers the
\* number of items still to place, down to none; the number of groups never
\* exceeds the number of input items.
C26_Terminates ==
    /\ <>(gpc = "done")
    /\ [][gpc = "loop" /\ Len(remaining) >= 1 =>
             /\ Len(groups') = Len(groups) + 1
             /\ \E n \in 1..Len(groups'[Len(groups')].members) :
                   groups'[Len(groups')].members[n] = remaining[1]
             /\ ToPlace' < ToPlace
             /\ gpc' = "loop" => Len(remaining') < Len(remaining)]_vars
    /\ [](Len(groups) <= Len(data))

\* an input of three items grouped in two iterations
C26_Witness ==
    /\ gpc = "done" /\ Len(data) = 3
    /\ Len(groups) = 2
    /\ \E i \in 1..2 : Len(groups[i].members) = 2

====
